---------------------------- MODULE Spec2Model ----------------------------
(***************************************************************************)
(* A model of the OpenProject MCP server: the API client                   *)
(* (src/src/openproject_client.py) and the tool entry points built on it   *)
(* (src/src/mcp_server.py).                                                *)
(*                                                                         *)
(* Every coroutine is cut at its only suspension point, the                *)
(* `await self.client.request(...)` of _make_request: one action runs a    *)
(* handler from one such await to the next.  The remote service and the    *)
(* network are the environment: the raw response of every request is       *)
(* drawn from the set Responses(...).                                      *)
(***************************************************************************)
EXTENDS Integers, Sequences, FiniteSets, TLC

VARIABLES
    pc,        \* task -> "idle", the await it is suspended at, or "done"
    op,        \* task -> the operation it runs
    args,      \* task -> the operation's arguments
    local,     \* task -> the operation's local variables
    inflight,  \* task -> the request awaited in _make_request, or NoRequest
    trace,     \* task -> requests logged and outcomes of _make_request, in order
    result,    \* task -> what the operation returned or raised
    cache,     \* OpenProjectClient._cache: key -> NoEntry or (data, timestamp)
    clock,     \* datetime.now(), in minutes
    cleared,   \* key -> it was cleared and no cached lookup of it has started since
    first,     \* task -> its lookup was the first to start after a clear of its key
    closed,    \* close() has completed on the client: self.client is closed
    after_close, \* task -> its operation started on a client already closed
    remote_version \* the lockVersion the remote service holds for work package 1

vars == <<pc, op, args, local, inflight, trace, result, cache, clock, cleared, first,
          closed, after_close, remote_version>>

-----------------------------------------------------------------------------
(* Values *)

\* An optional value is None or Some(v); a missing dict member and a JSON
\* null both read as None.
None == <<>>

Some(v) == <<v>>

NoRequest == [method |-> "none", url |-> "", params |-> None, json |-> None]

NoResult == [kind |-> "none"]

NoEntry == [present |-> FALSE, data |-> <<>>, timestamp |-> 0]

Entry(data, timestamp) == [present |-> TRUE, data |-> data, timestamp |-> timestamp]

CacheKeys == {"work_package_types", "priorities"}

\* The keys get_cached_or_fetch is called with
ReferenceKeys == {"work_package_types", "work_package_statuses", "priorities"}

\* The keys the dict self._cache is followed on: the reference keys and the
\* entities a client reads
CacheSlots == ReferenceKeys \cup {"projects", "work_packages_1", "work_package_1"}

Tasks == {"t1", "t2"}

\* dict.get(key) on a mapping whose members are optional values
Get(d, k) == IF k \in DOMAIN d THEN d[k] ELSE None

\* The empty mapping {}
EmptyObject == [k \in {} |-> None]

\* Python truthiness of an optional text (a sequence of characters)
TruthyText(o) == o # None /\ Len(o[1]) > 0

\* Python truthiness of an optional number
TruthyNumber(o) == o # None /\ o[1] # 0

\* str.strip() on a sequence of characters
RECURSIVE LStrip(_)
LStrip(s) == IF s # <<>> /\ Head(s) = " " THEN LStrip(Tail(s)) ELSE s

RECURSIVE RStrip(_)
RStrip(s) ==
    IF s # <<>> /\ s[Len(s)] = " " THEN RStrip(SubSeq(s, 1, Len(s) - 1)) ELSE s

Strip(s) == RStrip(LStrip(s))

-----------------------------------------------------------------------------
(* Dates: a date argument is the empty string, a string of the shape       *)
(* <year>-<month>-<day> with numeric fields, or any other string.          *)

Ymd(y, m, d) == [shape |-> "ymd", y |-> y, m |-> m, d |-> d]

EmptyDate == [shape |-> "empty", y |-> 0, m |-> 0, d |-> 0]

OtherDate == [shape |-> "other", y |-> 0, m |-> 0, d |-> 0]

IsLeap(y) == (y % 4 = 0 /\ y % 100 # 0) \/ y % 400 = 0

DaysInMonth(y, m) ==
    IF m = 2 THEN (IF IsLeap(y) THEN 29 ELSE 28)
    ELSE IF m \in {4, 6, 9, 11} THEN 30 ELSE 31

\* datetime.strptime(date_string, "%Y-%m-%d") does not raise ValueError
IsValidDateFormat(ds) ==
    /\ ds.shape = "ymd"
    /\ ds.y \in 1..9999
    /\ ds.m \in 1..12
    /\ ds.d \in 1..DaysInMonth(ds.y, ds.m)

TruthyDate(o) == o # None /\ o[1].shape # "empty"

-----------------------------------------------------------------------------
(* OpenProjectAPIError *)

\* The parts are joined by ", "
RECURSIVE JoinByComma(_)
JoinByComma(parts) ==
    IF parts = <<>> THEN ""
    ELSE IF Len(parts) = 1 THEN parts[1]
    ELSE parts[1] \o ", " \o JoinByComma(Tail(parts))

\* "; ".join(parts)
RECURSIVE Join(_)
Join(parts) ==
    IF parts = <<>> THEN ""
    ELSE IF Len(parts) = 1 THEN parts[1]
    ELSE parts[1] \o "; " \o Join(Tail(parts))

\* The messages of the objects of _embedded.errors that carry a non-empty one
RECURSIVE ErrorMessages(_)
ErrorMessages(errors) ==
    IF errors = <<>> THEN <<>>
    ELSE LET msg == Get(Head(errors), "message")
         IN  (IF msg # None /\ msg[1] # "" THEN <<msg[1]>> ELSE <<>>)
             \o ErrorMessages(Tail(errors))

\* One "<field>: <detail>" entry per detail of one field
RECURSIVE FieldDetails(_, _)
FieldDetails(field, details) ==
    IF details = <<>> THEN <<>>
    ELSE <<field \o ": " \o Head(details)>> \o FieldDetails(field, Tail(details))

\* The entries of every field of the validation map, in the map's order
RECURSIVE ErrorDetails(_)
ErrorDetails(items) ==
    IF items = <<>> THEN <<>>
    ELSE FieldDetails(Head(items)[1], Head(items)[2]) \o ErrorDetails(Tail(items))

\* The message OpenProjectAPIError.__init__ ends with
ErrorMessage(message, response_data) ==
    LET embedded == Get(response_data, "_embedded")
        listed == IF embedded = None THEN None ELSE Get(embedded[1], "errors")
        errors == IF listed = None THEN <<>> ELSE listed[1]
        msgs == ErrorMessages(errors)
        m1 == IF msgs # <<>> THEN Join(msgs) ELSE message
        validation == Get(response_data, "errors")
        details == IF validation = None THEN <<>> ELSE ErrorDetails(validation[1])
    IN  IF details # <<>>
        THEN m1 \o ". Validation errors: " \o Join(details)
        ELSE m1

OpenProjectAPIError(message, status_code, response_data) ==
    [message |-> ErrorMessage(message, response_data),
     status_code |-> status_code,
     response_data |-> response_data]

-----------------------------------------------------------------------------
(* _make_request: the raw responses of the transport, and their            *)
(* classification.                                                         *)

EmptyContent == [form |-> "empty"]

TextContent == [form |-> "text"]

JsonContent(v) == [form |-> "json", value |-> v]

HttpResponse(status, content) ==
    [transport |-> "ok", status |-> status, content |-> content]

TransportFailure(cause) == [transport |-> "error", cause |-> cause]

ReasonPhrase(status) ==
    CASE status = 200 -> "OK"
      [] status = 204 -> "No Content"
      [] status = 404 -> "Not Found"
      [] status = 409 -> "Conflict"
      [] status = 422 -> "Unprocessable Entity"
      [] status = 500 -> "Internal Server Error"
      [] OTHER -> ""

Returned(value) == [raised |-> FALSE, value |-> value]

Raised(error) == [raised |-> TRUE, error |-> error]

\* A timeout is reported by its own error, with a status code
RequestFailedTimeoutApart(cause) ==
    IF cause \in {"ReadTimeout", "ConnectTimeout"}
    THEN OpenProjectAPIError("Request timed out: " \o cause, Some(408), EmptyObject)
    ELSE OpenProjectAPIError("Request failed: " \o cause, None, EmptyObject)

\* The error of the `except httpx.RequestError` clause
RequestFailed(cause) ==
    OpenProjectAPIError("Request failed: " \o cause, None, EmptyObject)

\* _make_request from the response on: what the call returns or raises
MakeRequestOutcome(resp) ==
    IF resp.transport = "error"
    THEN Raised(RequestFailed(resp.cause))
    ELSE IF resp.status >= 400
    THEN LET error_data == IF resp.content.form = "json"
                           THEN resp.content.value ELSE EmptyObject
         IN  Raised(OpenProjectAPIError(
                 "API request failed: " \o ToString(resp.status) \o " "
                     \o ReasonPhrase(resp.status),
                 Some(resp.status), error_data))
    ELSE IF resp.content.form = "empty" THEN Returned(EmptyObject)
    ELSE IF resp.content.form = "json" THEN Returned(resp.content.value)
    ELSE Raised(OpenProjectAPIError("Invalid JSON response: Expecting value",
                                    None, EmptyObject))

\* response.get("_embedded", {}).get("elements", [])
Elements(response) ==
    LET embedded == Get(response, "_embedded")
        elements == IF embedded = None THEN None ELSE Get(embedded[1], "elements")
    IN  IF elements = None THEN <<>> ELSE elements[1]

-----------------------------------------------------------------------------
(* What a handler does when it is run up to its next await: it suspends in *)
(* _make_request on a request, returns, or raises.                         *)

AwaitWith(at, method, url, params, json, loc) ==
    [next |-> "await", at |-> at, local |-> loc,
     request |-> [method |-> method, url |-> url, params |-> params, json |-> json]]

Await(at, method, url, json, loc) == AwaitWith(at, method, url, None, json, loc)

Return(value) == [next |-> "done", result |-> [kind |-> "return", value |-> value]]

Raise(error) == [next |-> "done", result |-> [kind |-> "raise", error |-> error]]

\* The tools' `except OpenProjectAPIError as e` clause
ApiErrorResultAsSuccess(e) ==
    Return([success |-> TRUE,
            error |-> "OpenProject API error: " \o e.message,
            details |-> e.response_data])

ApiErrorResult(e) ==
    Return([success |-> FALSE,
            error |-> "OpenProject API error: " \o e.message,
            details |-> e.response_data])

Failure(message) == Return([success |-> FALSE, error |-> message])

-----------------------------------------------------------------------------
(* Bounds and inputs *)

\* The largest lockVersion the remote service reports
MaxLockVersion == 1

LockVersions == 0..MaxLockVersion

WorkPackageIds == {0, 1}

Texts == {<<>>, <<" ", "a">>}

Dates == {EmptyDate, OtherDate, Ymd(2024, 2, 29), Ymd(2023, 2, 29)}

Optional(S) == {None} \cup {Some(v) : v \in S}

-----------------------------------------------------------------------------
(* The remote service's answers, by the await the request was sent from *)

WorkPackageBody(id, lock) ==
    IF lock = None THEN [id |-> Some(id)]
    ELSE [id |-> Some(id), lockVersion |-> lock]

NotFoundBody ==
    [_embedded |-> Some([errors |-> Some(<<[message |-> Some("Not found")]>>)])]

ConflictBody == [message |-> Some("Stale object")]

InvalidBody == [errors |-> Some(<< <<"subject", <<"is blank">> >> >>)]

FailureResponses ==
    { TransportFailure("ConnectError"),
      TransportFailure("ReadTimeout"),
      HttpResponse(404, JsonContent(NotFoundBody)),
      HttpResponse(409, JsonContent(ConflictBody)),
      HttpResponse(422, JsonContent(InvalidBody)),
      HttpResponse(500, TextContent),
      HttpResponse(200, TextContent) }

WorkPackageResponses(id) ==
    { HttpResponse(200, JsonContent(WorkPackageBody(id, lock))) :
        lock \in Optional(LockVersions) }

Collection(elements) == [_embedded |-> Some([elements |-> Some(elements)])]

User(id) == [id |-> Some(id), name |-> Some("Bob")]

CollectionResponses ==
    { HttpResponse(200, JsonContent(body)) :
        body \in {Collection(<<>>), Collection(<<User(7)>>), [total |-> Some(0)]} }

\* The collections the remote service may hold under a reference endpoint
Collections == {<<"x">>, <<"x", "y">>}

ReferenceResponses ==
    { HttpResponse(200, JsonContent(Collection(c))) : c \in Collections }
    \cup { TransportFailure("ReadTimeout"), HttpResponse(500, TextContent) }

RootResponses ==
    { HttpResponse(200, JsonContent(body)) :
        body \in {[coreVersion |-> Some("14.0.0")], EmptyObject} }

Responses(at, id) ==
    IF at = "fetch" THEN ReferenceResponses
    ELSE FailureResponses \cup
    CASE at \in {"get_wp", "patch_wp", "entity"} -> WorkPackageResponses(id)
      [] at \in {"get_users", "collection"} -> CollectionResponses
      [] at = "root" -> RootResponses
      [] OTHER -> { HttpResponse(200, EmptyContent) }

-----------------------------------------------------------------------------
(* _make_request called on its own, against every kind of response *)

ListedErrors(errors) == [_embedded |-> Some([errors |-> Some(errors)])]

\* The JSON objects a response may carry as its body
ErrorBodies ==
    { EmptyObject,
      ConflictBody,
      NotFoundBody,
      ListedErrors(<<[message |-> Some("A")], [message |-> Some("B")]>>),
      ListedErrors(<<[code |-> Some("x")], [message |-> Some("")],
                     [message |-> Some("A")]>>),
      ListedErrors(<<>>),
      [_embedded |-> Some(EmptyObject)],
      InvalidBody,
      [errors |-> Some(<< <<"subject", <<"is blank", "is too long">> >>,
                          <<"project", <<"is invalid">> >> >>)],
      [errors |-> Some(<< <<"subject", <<>> >> >>)],
      [errors |-> Some(<<>>)],
      [_embedded |-> Some([errors |-> Some(<<[message |-> Some("A")],
                                             [message |-> Some("B")]>>)]),
       errors |-> Some(<< <<"subject", <<"is blank">> >> >>)] }

\* The status codes of the responses; redirects are not followed
Statuses == {200, 204, 301, 304, 400, 404, 422, 500}

DispatchResponses ==
    { TransportFailure(cause) : cause \in {"ConnectError", "ConnectTimeout", "ReadTimeout"} }
    \cup { HttpResponse(status, content) :
             status \in Statuses,
             content \in {EmptyContent, TextContent}
                         \cup { JsonContent(body) : body \in ErrorBodies } }

\* One call of _make_request: the request, and the answer the transport
\* will give it
DispatchArgs == [method : {"GET", "POST"}, url : {"/projects"},
                 response : DispatchResponses]

\* _make_request up to its await
make_request(method, url) == Await("dispatch", method, url, None, EmptyObject)

\* _make_request from the outcome of the dispatch
make_request_returned(out) ==
    IF out.raised THEN Raise(out.error) ELSE Return(out.value)

-----------------------------------------------------------------------------
(* OpenProjectClient: the operations that are one request *)

WorkPackageUrl(id) == "/work_packages/" \o ToString(id)

UserPath(id) == "/users/" \o ToString(id)

\* get_work_package_by_id up to its await
get_work_package_by_id(work_package_id, loc) ==
    Await("get_wp", "GET", WorkPackageUrl(work_package_id), None, loc)

\* update_work_package up to its await
update_work_package(work_package_id, updates, loc) ==
    Await("patch_wp", "PATCH", WorkPackageUrl(work_package_id), Some(updates), loc)

\* str(s) of a sequence of characters
RECURSIVE Str(_)
Str(s) == IF s = <<>> THEN "" ELSE Head(s) \o Str(Tail(s))

\* get_users up to its await
get_users(filters, loc) ==
    Await("get_users", "GET",
          IF filters = None THEN "/users" ELSE "/users?filters=" \o filters[1],
          None, loc)

\* get_user_by_email up to its await
get_user_by_email(email, loc) ==
    get_users(Some("[{\"email\": {\"operator\": \"=\", \"values\": [\""
                   \o Str(email) \o "\"]}}]"), loc)

\* get_user_by_email from the outcome of its request: the user, or None
get_user_by_email_found(out) ==
    IF out.raised THEN None
    ELSE LET users == Elements(out.value)
         IN  IF users # <<>> THEN Some(users[1]) ELSE None

\* The operations that send one request and hand back the parsed body
\* ("body") or its _embedded.elements ("elements")
ClientCalls ==
    { [name |-> "get_projects", method |-> "GET", url |-> "/projects",
       json |-> None, at |-> "collection", returns |-> "elements"],
      [name |-> "get_work_packages", method |-> "GET",
       url |-> "/projects/" \o ToString(1) \o "/work_packages",
       json |-> None, at |-> "collection", returns |-> "elements"],
      [name |-> "update_work_package", method |-> "PATCH", url |-> WorkPackageUrl(1),
       json |-> Some("subject" :> <<"a">>), at |-> "patch_wp", returns |-> "body"],
      [name |-> "update_work_package", method |-> "PATCH", url |-> WorkPackageUrl(1),
       json |-> Some(("lockVersion" :> 1) @@ ("subject" :> <<"a">>)),
       at |-> "patch_wp", returns |-> "body"],
      [name |-> "add_work_package_comment", method |-> "POST",
       url |-> WorkPackageUrl(1) \o "/activities",
       json |-> Some([comment |-> [raw |-> <<"a">>]]),
       at |-> "other", returns |-> "body"],
      [name |-> "get_work_package_activities", method |-> "GET",
       url |-> WorkPackageUrl(1) \o "/activities",
       json |-> None, at |-> "collection", returns |-> "elements"],
      [name |-> "get_work_package_relations", method |-> "GET",
       url |-> WorkPackageUrl(1) \o "/relations",
       json |-> None, at |-> "collection", returns |-> "elements"],
      [name |-> "delete_work_package_relation", method |-> "DELETE",
       url |-> "/relations/" \o ToString(1),
       json |-> None, at |-> "other", returns |-> "body"],
      [name |-> "get_work_package_by_id", method |-> "GET", url |-> WorkPackageUrl(1),
       json |-> None, at |-> "entity", returns |-> "body"],
      [name |-> "get_users", method |-> "GET", url |-> "/users",
       json |-> None, at |-> "collection", returns |-> "elements"],
      [name |-> "get_user_by_id", method |-> "GET", url |-> UserPath(7),
       json |-> None, at |-> "other", returns |-> "body"],
      [name |-> "get_project_memberships", method |-> "GET",
       url |-> "/projects/" \o ToString(1) \o "/memberships",
       json |-> None, at |-> "collection", returns |-> "elements"] }

\* The collections answered without a request
client_call_from_memory(c) ==
    IF c.returns = "elements" THEN Return(<<>>)
    ELSE Await(c.at, c.method, c.url, c.json, EmptyObject)

\* A one-request operation up to its await
client_call(c) == Await(c.at, c.method, c.url, c.json, EmptyObject)

\* A one-request operation from the outcome of its request
client_call_returned(c, out) ==
    IF out.raised THEN Raise(out.error)
    ELSE IF c.returns = "elements" THEN Return(Elements(out.value))
    ELSE Return(out.value)

\* get_user_by_email as an operation of its own
client_get_user_by_email_returned(out) == Return(get_user_by_email_found(out))

\* test_connection up to its await
test_connection == Await("root", "GET", "/", None, EmptyObject)

\* The error of the dispatch is left to propagate
test_connection_returned_raising(out) ==
    IF out.raised THEN Raise(out.error)
    ELSE LET version == Get(out.value, "coreVersion")
         IN  Return([success |-> TRUE,
                     message |-> "Connection successful",
                     openproject_version |->
                         IF version = None THEN "unknown" ELSE version[1]])

\* test_connection from the outcome of its request; only an
\* OpenProjectAPIError is caught
test_connection_returned(out) ==
    IF out.raised /\ "type" \in DOMAIN out.error THEN Raise(out.error)
    ELSE IF out.raised
    THEN Return([success |-> FALSE,
                 message |-> "Connection failed: " \o out.error.message,
                 error |-> out.error.message])
    ELSE LET version == Get(out.value, "coreVersion")
         IN  Return([success |-> TRUE,
                     message |-> "Connection successful",
                     openproject_version |->
                         IF version = None THEN "unknown" ELSE version[1]])

-----------------------------------------------------------------------------
(* The update_work_package tool *)

UpdateArgs ==
    [work_package_id : WorkPackageIds,
     subject : Optional(Texts),
     description : Optional(Texts),
     start_date : Optional(Dates),
     due_date : Optional({OtherDate, Ymd(2024, 3, 1)}),
     assignee_id : Optional({0, 7}),
     status_id : Optional({3}),
     estimated_hours : Optional({2})]

\* The most writes the remote service has accepted when an update begins
MaxVersion == 2

\* The updates of work package 1 that run against the remote service
RemoteUpdateArgs ==
    { a \in UpdateArgs :
        /\ a.work_package_id = 1
        /\ a.description = None /\ a.start_date = None /\ a.due_date = None
        /\ a.status_id = None /\ a.estimated_hours = None
        /\ a.assignee_id # Some(0) }

UserHref(id) == "/api/v3/users/" \o ToString(id)

StatusHref(id) == "/api/v3/statuses/" \o ToString(id)

\* f"PT{estimated_hours}H" of a float with an integral value
Duration(hours) == "PT" \o ToString(hours) \o ".0H"

\* The members the tool adds to the payload for the fields supplied
UpdateFields(a) ==
    LET links == (IF TruthyNumber(a.assignee_id)
                  THEN "assignee" :> [href |-> UserHref(a.assignee_id[1])]
                  ELSE EmptyObject)
                 @@ (IF TruthyNumber(a.status_id)
                     THEN "status" :> [href |-> StatusHref(a.status_id[1])]
                     ELSE EmptyObject)
    IN  (IF TruthyText(a.subject)
         THEN "subject" :> Strip(a.subject[1]) ELSE EmptyObject)
        @@ (IF a.description # None
            THEN "description" :> [raw |-> Strip(a.description[1])]
            ELSE EmptyObject)
        @@ (IF TruthyDate(a.start_date)
            THEN "startDate" :> a.start_date[1] ELSE EmptyObject)
        @@ (IF TruthyDate(a.due_date)
            THEN "dueDate" :> a.due_date[1] ELSE EmptyObject)
        @@ (IF DOMAIN links # {} THEN "_links" :> links ELSE EmptyObject)
        @@ (IF TruthyNumber(a.estimated_hours)
            THEN "estimatedTime" :> Duration(a.estimated_hours[1])
            ELSE EmptyObject)

\* The payload sends a version that was not the one read
UpdatePayloadStale(a, lock_version) == ("lockVersion" :> 0) @@ UpdateFields(a)

\* The payload of the PATCH: the version read and the fields supplied
UpdatePayload(a, lock_version) == ("lockVersion" :> lock_version) @@ UpdateFields(a)

\* The check forgets that lockVersion is a member of the payload
NoUpdatesMiscounted(updates) == Cardinality(DOMAIN updates) = 0

\* len(updates) == 1: nothing was supplied besides the version
NoUpdates(updates) == Cardinality(DOMAIN updates) = 1

\* A missing version is reported as the work package not being found
MissingLockVersionAsNotFound ==
    ApiErrorResult(OpenProjectAPIError("API request failed: 404 Not Found",
                                       Some(404), NotFoundBody))

\* The tool's answer to a work package that carries no lockVersion
MissingLockVersion ==
    Failure("Unable to retrieve lock version for work package. It may not exist.")

\* The tool from its entry to the GET of the work package
tool_update_work_package(a) ==
    IF a.work_package_id <= 0
    THEN Failure("Work package ID must be a positive integer")
    ELSE get_work_package_by_id(a.work_package_id, EmptyObject)

\* The tool from the GET's outcome to the PATCH
tool_update_work_package_fetched(a, out) ==
    IF out.raised THEN ApiErrorResult(out.error)
    ELSE LET lock_version == Get(out.value, "lockVersion")
             updates == UpdatePayload(a, lock_version[1])
         IN  IF lock_version = None
             THEN MissingLockVersion
             ELSE IF TruthyDate(a.start_date) /\ ~IsValidDateFormat(a.start_date[1])
             THEN Failure("Start date must be in YYYY-MM-DD format")
             ELSE IF TruthyDate(a.due_date) /\ ~IsValidDateFormat(a.due_date[1])
             THEN Failure("Due date must be in YYYY-MM-DD format")
             ELSE IF NoUpdates(updates)
             THEN Failure("No updates provided. Specify at least one field to update.")
             ELSE update_work_package(a.work_package_id, updates,
                                      [lock_version |-> lock_version])

\* The tool answers a rejected PATCH by fetching the work package again
tool_update_work_package_patched_retrying(a, out) ==
    IF out.raised /\ out.error.status_code = Some(409)
    THEN get_work_package_by_id(a.work_package_id, EmptyObject)
    ELSE IF out.raised THEN ApiErrorResult(out.error)
    ELSE Return([success |-> TRUE])

\* The tool from the PATCH's outcome to its return
tool_update_work_package_patched(a, out) ==
    IF out.raised THEN ApiErrorResult(out.error)
    ELSE Return([success |-> TRUE,
                 message |-> "Work package " \o ToString(a.work_package_id)
                             \o " updated successfully",
                 work_package |-> [id |-> Get(out.value, "id")]])

-----------------------------------------------------------------------------
(* The assign_work_package_by_email tool *)

Emails == {<<>>, <<"b">>, <<"b", "@", "x">>}

AssignArgs == [work_package_id : WorkPackageIds, assignee_email : Emails]

\* "@" in s
HasAt(s) == \E i \in 1..Len(s) : s[i] = "@"

\* f"{user.get('id')}"
IdStr(o) == IF o = None THEN "None" ELSE ToString(o[1])

\* The tool from its entry to the lookup of the user
tool_assign_work_package_by_email(a) ==
    IF a.work_package_id <= 0
    THEN Failure("Work package ID must be a positive integer")
    ELSE IF a.assignee_email = <<>> \/ ~HasAt(a.assignee_email)
    THEN Failure("Valid email address is required")
    ELSE get_user_by_email(a.assignee_email, EmptyObject)

\* The tool from the lookup's outcome to the GET of the work package
tool_assign_work_package_by_email_looked_up(a, out) ==
    LET user == get_user_by_email_found(out)
    IN  IF user = None \/ DOMAIN user[1] = {}
        THEN Failure("User with email '" \o Str(a.assignee_email) \o "' not found")
        ELSE get_work_package_by_id(a.work_package_id, [user |-> user[1]])

\* The tool from the GET's outcome to the PATCH
tool_assign_work_package_by_email_fetched(a, loc, out) ==
    IF out.raised THEN ApiErrorResult(out.error)
    ELSE LET lock_version == Get(out.value, "lockVersion")
             updates ==
                 ("lockVersion" :> lock_version[1])
                 @@ ("_links" :> [assignee |->
                        [href |-> "/api/v3/users/" \o IdStr(Get(loc.user, "id"))]])
         IN  IF lock_version = None
             THEN Failure("Unable to retrieve lock version for work package")
             ELSE update_work_package(a.work_package_id, updates,
                      [user |-> loc.user, lock_version |-> lock_version])

\* The tool from the PATCH's outcome to its return
tool_assign_work_package_by_email_patched(a, loc, out) ==
    IF out.raised THEN ApiErrorResult(out.error)
    ELSE Return([success |-> TRUE,
                 message |-> "Work package " \o ToString(a.work_package_id)
                             \o " assigned",
                 work_package |-> [id |-> Get(out.value, "id"),
                                   assignee |-> Get(loc.user, "id")]])

-----------------------------------------------------------------------------
(* The search_work_packages tool and the client operation under it *)

CustomFilters == {"", "[{\"status\": {}}]", "{\"status\": {}}", "[{"}

\* json.loads(custom_filters): a list, another JSON value, or JSONDecodeError
ParsedCustomFilters(text) ==
    CASE text = "[{\"status\": {}}]" -> [form |-> "list"]
      [] text = "{\"status\": {}}" -> [form |-> "object"]
      [] OTHER -> [form |-> "invalid"]

\* parsed_custom_filters: None unless the text is given and not empty
ParsedFilterList(custom_filters) ==
    IF custom_filters # None /\ custom_filters[1] # ""
    THEN Some(<<"status" :> EmptyObject>>)
    ELSE None

SearchArgs ==
    [created_after : Optional({OtherDate, Ymd(2024, 2, 29)}),
     created_before : Optional({EmptyDate, Ymd(2023, 2, 29)}),
     due_after : Optional({Ymd(2024, 4, 31)}),
     due_before : Optional({Ymd(2024, 4, 30)}),
     custom_filters : Optional(CustomFilters),
     page_size : Optional({0, 1, 100, 101}),
     offset : Optional({-1, 0})]

Min(a, b) == IF a <= b THEN a ELSE b

\* The defaults of the client's search_work_packages
SearchDefaults ==
    [project_id |-> None, status_ids |-> None, assignee_id |-> None,
     type_ids |-> None, priority_ids |-> None,
     created_after |-> None, created_before |-> None,
     due_after |-> None, due_before |-> None,
     subject_contains |-> None, custom_filters |-> None,
     sort_by |-> "id", sort_order |-> "desc", page_size |-> 100, offset |-> 0]

AllowedSortFields ==
    {"id", "subject", "updatedAt", "createdAt", "dueDate", "startDate",
     "status", "priority", "type"}

\* [str(v) for v in values] over a list of integers
RECURSIVE StrEach(_)
StrEach(values) ==
    IF values = <<>> THEN <<>>
    ELSE <<ToString(Head(values))>> \o StrEach(Tail(values))

\* _build_filter; str(v) of a string is the string
BuildFilter(field, operator, values) ==
    field :> [operator |-> operator, values |-> values]

\* Python truthiness of an optional list
TruthyList(o) == o # None /\ o[1] # <<>>

FarFuture == Ymd(2099, 12, 31)

FarPast == Ymd(1900, 1, 1)

\* The one-sided ranges closed with the bound's own date
DateRangeFilterOpenEnded(field, after, before) ==
    IF TruthyDate(after) /\ TruthyDate(before)
    THEN <<BuildFilter(field, "<>d", <<after[1], before[1]>>)>>
    ELSE IF TruthyDate(after)
    THEN <<BuildFilter(field, "<>d", <<after[1], after[1]>>)>>
    ELSE IF TruthyDate(before)
    THEN <<BuildFilter(field, "<>d", <<before[1], before[1]>>)>>
    ELSE <<>>

\* The filter on a date field, as a list of none or one filter
DateRangeFilter(field, after, before) ==
    IF TruthyDate(after) /\ TruthyDate(before)
    THEN <<BuildFilter(field, "<>d", <<after[1], before[1]>>)>>
    ELSE IF TruthyDate(after)
    THEN <<BuildFilter(field, "<>d", <<after[1], FarFuture>>)>>
    ELSE IF TruthyDate(before)
    THEN <<BuildFilter(field, "<>d", <<FarPast, before[1]>>)>>
    ELSE <<>>

\* filter_list, in the order the filters are appended
FilterList(c) ==
    (IF TruthyNumber(c.project_id)
     THEN <<BuildFilter("project", "=", StrEach(<<c.project_id[1]>>))>> ELSE <<>>)
    \o (IF TruthyList(c.status_ids)
        THEN <<BuildFilter("status", "=", StrEach(c.status_ids[1]))>> ELSE <<>>)
    \o (IF TruthyNumber(c.assignee_id)
        THEN <<BuildFilter("assignee", "=", StrEach(<<c.assignee_id[1]>>))>> ELSE <<>>)
    \o (IF TruthyList(c.type_ids)
        THEN <<BuildFilter("type", "=", StrEach(c.type_ids[1]))>> ELSE <<>>)
    \o (IF TruthyList(c.priority_ids)
        THEN <<BuildFilter("priority", "=", StrEach(c.priority_ids[1]))>> ELSE <<>>)
    \o DateRangeFilter("createdAt", c.created_after, c.created_before)
    \o DateRangeFilter("dueDate", c.due_after, c.due_before)
    \o (IF TruthyText(c.subject_contains)
        THEN <<BuildFilter("subject", "~", <<c.subject_contains[1]>>)>> ELSE <<>>)
    \o (IF TruthyList(c.custom_filters) THEN c.custom_filters[1] ELSE <<>>)

\* The sort field sent as it was given
SortByUnvalidated(sort_by, sort_order) ==
    <<<<sort_by, IF sort_order = "asc" THEN "asc" ELSE "desc">>>>

\* The sort criteria json.dumps writes into sortBy: one [field, direction]
SortBy(sort_by, sort_order) ==
    <<<<IF sort_by \in AllowedSortFields THEN sort_by ELSE "id",
        IF sort_order = "asc" THEN "asc" ELSE "desc">>>>

\* params; sortBy and filters hold the lists json.dumps encodes
SearchParams(c) ==
    LET page == ("pageSize" :> Min(c.page_size, 100)) @@ ("offset" :> c.offset)
                    @@ ("sortBy" :> SortBy(c.sort_by, c.sort_order))
    IN  IF FilterList(c) # <<>>
        THEN page @@ ("filters" :> FilterList(c))
        ELSE page

\* The client's search_work_packages up to its await
search_work_packages(c) ==
    AwaitWith("collection", "GET", "/work_packages", Some(SearchParams(c)),
              None, EmptyObject)

\* The client's search_work_packages from the outcome to its end
search_work_packages_returned(out) ==
    IF out.raised THEN Raise(out.error) ELSE Return(out.value)

\* The arguments the client's search is called with: the paging and sorting
\* arguments, the filters on identifiers and text, and the date filters, each
\* over the defaults of the others
ClientSearchArgs ==
    { [SearchDefaults EXCEPT !.page_size = p, !.offset = o,
                             !.sort_by = s, !.sort_order = d] :
        p \in {-1, 0, 1, 50, 100, 101, 1000}, o \in {0, 100},
        s \in AllowedSortFields \cup {"", "ID", "assignee"},
        d \in {"asc", "desc", "ASC"} }
    \cup
    { [SearchDefaults EXCEPT !.project_id = f[1], !.status_ids = f[2],
                             !.assignee_id = f[3], !.type_ids = f[4],
                             !.subject_contains = f[5], !.custom_filters = f[6]] :
        f \in Optional({0, 1}) \X Optional({<<1, 2>>}) \X Optional({7})
                 \X Optional({<<>>, <<3>>}) \X Optional({<<>>, <<"b", "u", "g">>})
                 \X Optional({<<"status" :> [operator |-> "o", values |-> <<>>]>>}) }
    \cup
    { [SearchDefaults EXCEPT !.project_id = r[1], !.priority_ids = r[2],
                             !.created_after = r[3], !.created_before = r[4],
                             !.due_after = r[5], !.due_before = r[6]] :
        r \in Optional({1}) \X Optional({<<8>>})
                 \X Optional({EmptyDate, Ymd(2024, 1, 1)}) \X Optional({Ymd(2024, 6, 30)})
                 \X Optional({Ymd(2024, 2, 1)})
                 \X Optional({EmptyDate, Ymd(2024, 2, 29)}) }

\* The first date parameter, in the tool's order, that is given and malformed
BadDateParam(a) ==
    LET bad(d) == TruthyDate(d) /\ ~IsValidDateFormat(d[1])
    IN  IF bad(a.created_after) THEN "created_after"
        ELSE IF bad(a.created_before) THEN "created_before"
        ELSE IF bad(a.due_after) THEN "due_after"
        ELSE IF bad(a.due_before) THEN "due_before"
        ELSE ""

\* The tool from its entry to the search request
tool_search_work_packages(a) ==
    IF BadDateParam(a) # ""
    THEN Failure("Invalid date format for " \o BadDateParam(a)
                 \o ". Use YYYY-MM-DD format.")
    ELSE IF a.page_size # None /\ (a.page_size[1] < 1 \/ a.page_size[1] > 100)
    THEN Failure("page_size must be between 1 and 100")
    ELSE IF a.offset # None /\ a.offset[1] < 0
    THEN Failure("offset must be non-negative")
    ELSE IF a.custom_filters # None /\ a.custom_filters[1] # ""
            /\ ParsedCustomFilters(a.custom_filters[1]).form = "invalid"
    THEN Failure("Invalid JSON in custom_filters")
    ELSE IF a.custom_filters # None /\ a.custom_filters[1] # ""
            /\ ParsedCustomFilters(a.custom_filters[1]).form # "list"
    THEN Failure("custom_filters must be a JSON array")
    ELSE search_work_packages(
             [SearchDefaults EXCEPT
                !.created_after = a.created_after,
                !.created_before = a.created_before,
                !.due_after = a.due_after,
                !.due_before = a.due_before,
                !.custom_filters = ParsedFilterList(a.custom_filters),
                !.page_size = IF TruthyNumber(a.page_size) THEN a.page_size[1] ELSE 100,
                !.offset = IF TruthyNumber(a.offset) THEN a.offset[1] ELSE 0])

\* The tool from the outcome of the search to its return
tool_search_work_packages_returned(a, out) ==
    IF out.raised THEN ApiErrorResult(out.error)
    ELSE Return([success |-> TRUE,
                 count |-> Len(Elements(out.value)),
                 total |-> Get(out.value, "total")])

-----------------------------------------------------------------------------
(* The add_work_package_comment tool *)

CommentArgs ==
    [work_package_id : WorkPackageIds, comment : {<<>>, <<" ">>, <<" ", "a">>}]

\* The tool from its entry to the POST of the comment
tool_add_work_package_comment(a) ==
    IF a.work_package_id <= 0
    THEN Failure("Work package ID must be a positive integer")
    ELSE IF a.comment = <<>> \/ Strip(a.comment) = <<>>
    THEN Failure("Comment cannot be empty")
    ELSE Await("other", "POST", WorkPackageUrl(a.work_package_id) \o "/activities",
               Some([comment |-> [raw |-> Strip(a.comment)]]), EmptyObject)

\* The tool from the POST's outcome to its return
tool_add_work_package_comment_returned(a, out) ==
    IF out.raised THEN ApiErrorResult(out.error)
    ELSE Return([success |-> TRUE,
                 message |-> "Comment added to work package "
                             \o ToString(a.work_package_id)])

-----------------------------------------------------------------------------
(* The create_work_package tool and the client operation under it *)

CreateArgs ==
    [project_id : {0, 1},
     subject : {<<>>, <<" ">>, <<" ", "a">>},
     description : {<<>>, <<"d", " ">>},
     start_date : Optional({OtherDate, Ymd(2024, 2, 29)}),
     due_date : Optional({EmptyDate, Ymd(2023, 2, 29)}),
     parent_id : Optional({-1, 4}),
     assignee_id : Optional({7}),
     estimated_hours : Optional({2})]

\* models.WorkPackageCreateRequest(...): the request object, its type, status
\* and priority left at the model's defaults
WorkPackageCreateRequest(a) ==
    [project_id |-> a.project_id,
     subject |-> Strip(a.subject),
     description |-> Strip(a.description),
     start_date |-> a.start_date,
     due_date |-> a.due_date,
     parent_id |-> a.parent_id,
     assignee_id |-> a.assignee_id,
     estimated_hours |-> a.estimated_hours,
     type_id |-> 1, status_id |-> 1, priority_id |-> 2]

\* The request object passes the model's validation (no ValidationError)
WorkPackageCreateRequestValid(r) ==
    /\ r.project_id > 0
    /\ r.subject # <<>>
    /\ r.parent_id = None \/ r.parent_id[1] > 0
    /\ r.assignee_id = None \/ r.assignee_id[1] > 0
    /\ r.start_date = None \/ IsValidDateFormat(r.start_date[1])
    /\ r.due_date = None \/ IsValidDateFormat(r.due_date[1])

Href(path, id) == [href |-> "/api/v3/" \o path \o "/" \o ToString(id)]

\* The client's create_work_package: the payload it posts
CreateWorkPackagePayload(r) ==
    LET links == [project |-> Href("projects", r.project_id),
                  type |-> Href("types", r.type_id),
                  status |-> Href("statuses", r.status_id),
                  priority |-> Href("priorities", r.priority_id)]
                 @@ (IF TruthyNumber(r.assignee_id)
                     THEN "assignee" :> Href("users", r.assignee_id[1])
                     ELSE EmptyObject)
                 @@ (IF TruthyNumber(r.parent_id)
                     THEN "parent" :> Href("work_packages", r.parent_id[1])
                     ELSE EmptyObject)
    IN  [subject |-> r.subject, _links |-> links]
        @@ (IF r.description # <<>>
            THEN "description" :> [raw |-> r.description] ELSE EmptyObject)
        @@ (IF TruthyDate(r.start_date)
            THEN "startDate" :> r.start_date[1] ELSE EmptyObject)
        @@ (IF TruthyDate(r.due_date)
            THEN "dueDate" :> r.due_date[1] ELSE EmptyObject)
        @@ (IF TruthyNumber(r.estimated_hours)
            THEN "estimatedTime" :> Duration(r.estimated_hours[1])
            ELSE EmptyObject)

\* The client's create_work_package up to its await
create_work_package(r) ==
    Await("entity", "POST", "/work_packages", Some(CreateWorkPackagePayload(r)),
          EmptyObject)

\* The tool from its entry to the POST
tool_create_work_package(a) ==
    IF a.subject = <<>> \/ Strip(a.subject) = <<>>
    THEN Failure("Work package subject is required and cannot be empty")
    ELSE IF a.project_id <= 0
    THEN Failure("Project ID must be a positive integer")
    ELSE IF TruthyDate(a.start_date) /\ ~IsValidDateFormat(a.start_date[1])
    THEN Failure("Start date must be in YYYY-MM-DD format")
    ELSE IF TruthyDate(a.due_date) /\ ~IsValidDateFormat(a.due_date[1])
    THEN Failure("Due date must be in YYYY-MM-DD format")
    ELSE IF ~WorkPackageCreateRequestValid(WorkPackageCreateRequest(a))
    THEN Failure("Validation error")
    ELSE create_work_package(WorkPackageCreateRequest(a))

\* The tool from the POST's outcome to its return
tool_create_work_package_returned(a, out) ==
    IF out.raised THEN ApiErrorResult(out.error)
    ELSE Return([success |-> TRUE,
                 work_package |-> [id |-> Get(out.value, "id"),
                                   project_id |-> a.project_id]])

-----------------------------------------------------------------------------
(* The create_project tool and the client operations that create a project  *)
(* and a relation                                                           *)

\* description is "" when the caller gives none
ProjectArgs ==
    [name : {<<>>, <<" ">>, <<" ", "P">>},
     description : {<<>>, <<" ">>, <<"d", " ">>}]

\* models.ProjectCreateRequest(name, description): the status left at the
\* model's default
ProjectCreateRequest(name, description) ==
    [name |-> name, description |-> description, status |-> "active"]

\* The client's create_project: the payload it posts
CreateProjectPayload(project_data) ==
    [name |-> project_data.name,
     description |-> [raw |-> project_data.description]]
    @@ (IF project_data.status # "" /\ project_data.status # "active"
        THEN "status" :> project_data.status ELSE EmptyObject)

\* The client's create_project up to its await
create_project(project_data) ==
    Await("entity", "POST", "/projects", Some(CreateProjectPayload(project_data)),
          EmptyObject)

\* The tool from its entry to the POST
tool_create_project(a) ==
    IF a.name = <<>> \/ Strip(a.name) = <<>>
    THEN Failure("Project name is required and cannot be empty")
    ELSE create_project(
             ProjectCreateRequest(Strip(a.name),
                                  IF a.description # <<>> THEN Strip(a.description)
                                  ELSE <<>>))

\* The tool from the POST's outcome to its return
tool_create_project_returned(a, out) ==
    IF out.raised THEN ApiErrorResult(out.error)
    ELSE Return([success |-> TRUE,
                 project |-> [id |-> Get(out.value, "id")]])

RelationArgs ==
    [from_wp_id : {1}, to_wp_id : {2},
     relation_type : {"follows", "blocks"},
     description : {<<>>, <<"d">>},
     lag : {-1, 0, 2}]

\* The client's create_work_package_relation: the payload it posts
CreateRelationPayload(a) ==
    [type |-> a.relation_type,
     _links |-> [to |-> Href("work_packages", a.to_wp_id)]]
    @@ (IF a.description # <<>> THEN "description" :> a.description ELSE EmptyObject)
    @@ (IF a.lag # 0 THEN "lag" :> a.lag ELSE EmptyObject)

\* The client's create_work_package_relation up to its await
create_work_package_relation(a) ==
    Await("entity", "POST",
          "/work_packages/" \o ToString(a.from_wp_id) \o "/relations",
          Some(CreateRelationPayload(a)), EmptyObject)

\* The client's create_work_package_relation from the outcome to its end
create_work_package_relation_returned(out) ==
    IF out.raised THEN Raise(out.error) ELSE Return(out.value)

-----------------------------------------------------------------------------
(* config.Settings and scripts/health_check_test.py *)

\* A value of OPENPROJECT_URL: its scheme prefix and the rest; "" is Url("", "")
Url(scheme, rest) == [scheme |-> scheme, rest |-> rest]

\* A value of MCP_PORT: a decimal number, or a text int() rejects
PortText(numeric, value) == [numeric |-> numeric, value |-> value]

\* The environment of the process: the variables Settings reads (an API key
\* by its length), and whether openproject_client and what it imports can
\* be found
Environments ==
    [OPENPROJECT_URL : Optional({Url("", ""), Url("ftp://", "op.example"),
                                 Url("http://", "op.example"),
                                 Url("https://", "op.example")}),
     OPENPROJECT_API_KEY : Optional({0, 19, 20}),
     MCP_PORT : Optional({PortText(TRUE, 0), PortText(TRUE, 8080),
                          PortText(TRUE, 65536), PortText(FALSE, 0)}),
     importable : BOOLEAN]

\* Settings.__init__: the ValueError it raises, or None
SettingsError(env) ==
    LET url == env.OPENPROJECT_URL
        key == env.OPENPROJECT_API_KEY
        port == IF env.MCP_PORT = None THEN PortText(TRUE, 8080) ELSE env.MCP_PORT[1]
    IN  IF url = None \/ url[1] = Url("", "")
        THEN Some("Required environment variable OPENPROJECT_URL is not set")
        ELSE IF key = None \/ key[1] = 0
        THEN Some("Required environment variable OPENPROJECT_API_KEY is not set")
        ELSE IF ~port.numeric
        THEN Some("invalid literal for int() with base 10")
        ELSE IF url[1].scheme \notin {"http://", "https://"}
        THEN Some("OPENPROJECT_URL must start with http:// or https://")
        ELSE IF key[1] < 20
        THEN Some("OPENPROJECT_API_KEY appears to be too short")
        ELSE IF ~(1 <= port.value /\ port.value <= 65535)
        THEN Some("MCP_PORT must be between 1 and 65535")
        ELSE None

\* The process ends with exit status `code`; `error` is the exception that
\* ended it, if one did
Exit(code, error) ==
    [next |-> "done", result |-> [kind |-> "exit", code |-> code, error |-> error]]

\* An exception no handler catches ends the interpreter with status 1
Uncaught(error) == Exit(1, Some(error))

\* The script from its start to the await of test_connection: the import of
\* openproject_client, which imports config and so constructs Settings
health_check(env) ==
    IF ~env.importable THEN Exit(2, Some("ImportError"))
    ELSE IF SettingsError(env) # None THEN Uncaught("ValueError")
    ELSE test_connection

\* check_health from the outcome of test_connection's request
check_health(out) ==
    LET tested == test_connection_returned(out).result
    IN  IF tested.kind = "raise"
        THEN [success |-> FALSE,
              message |-> "Health check failed: " \o tested.error.message,
              error |-> tested.error.message]
        ELSE tested.value

\* main from the result of check_health
main(out) == Exit(IF check_health(out).success THEN 0 ELSE 1, None)

-----------------------------------------------------------------------------
(* get_paginated_results, the pagination walker *)

\* page_size = 100
PageSize == 100

\* The largest number of elements the remote collection holds
MaxHeld == 237

\* The sizes of the remote collection: around the page boundaries
HeldSizes == { n \in 0..MaxHeld : n % PageSize \in {0, 1, 37, 99} }

\* The element at position i of the remote collection; values repeat
Item(i) == i % 3

Held(n) == [i \in 1..n |-> Item(i)]

\* The remote collection during one walk: it holds `held` elements and
\* reports `total`, which may be absent or ahead of what it holds
Remotes ==
    UNION { { [held |-> n, total |-> tot] : tot \in {None, Some(n), Some(n + 150)} } :
            n \in HeldSizes }

WalkParams ==
    { None, Some("filters" :> "[]"), Some("pageSize" :> 50), Some("offset" :> 0) }

WalkArgs == [endpoint : {"/projects"}, params : WalkParams, remote : Remotes]

\* The page the remote service answers a request with: the elements at
\* [offset, offset + pageSize) of what it holds
Page(remote, params) ==
    LET from == params["offset"]
        to == Min(from + params["pageSize"], remote.held)
        elements == SubSeq(Held(remote.held), from + 1, to)
    IN  IF remote.total = None THEN Collection(elements)
        ELSE [_embedded |-> Some([elements |-> Some(elements)]),
              total |-> remote.total]

PageResponses(remote, params) ==
    { HttpResponse(200, JsonContent(Page(remote, params))),
      TransportFailure("ReadTimeout"),
      HttpResponse(500, TextContent) }

\* paginated_params: pageSize and offset, updated with the caller's params
PaginatedParams(params, offset) ==
    LET paginated_params == ("pageSize" :> PageSize) @@ ("offset" :> offset)
    IN  IF params # None /\ DOMAIN params[1] # {}
        THEN params[1] @@ paginated_params
        ELSE paginated_params

\* Every turn of the loop asks from the start and forgets how far it came
get_paginated_results_from_start(endpoint, params, all_results, offset) ==
    AwaitWith("page", "GET", endpoint, Some(PaginatedParams(params, 0)), None,
              [all_results |-> all_results, offset |-> 0])

\* One turn of the loop up to its await
get_paginated_results(endpoint, params, all_results, offset) ==
    AwaitWith("page", "GET", endpoint, Some(PaginatedParams(params, offset)), None,
              [all_results |-> all_results, offset |-> offset])

\* The loop goes on past an empty page while total promises more
get_paginated_results_page_trusting_total(a, loc, out) ==
    IF out.raised THEN Raise(out.error)
    ELSE LET all_results == loc.all_results \o Elements(out.value)
             reported == Get(out.value, "total")
             total == IF reported = None THEN 0 ELSE reported[1]
         IN  IF loc.offset + PageSize >= total THEN Return(all_results)
             ELSE get_paginated_results(a.endpoint, a.params, all_results,
                                        loc.offset + PageSize)

\* The loop from the outcome of a page's request to the next await or the return
get_paginated_results_page(a, loc, out) ==
    IF out.raised THEN Raise(out.error)
    ELSE LET elements == Elements(out.value)
             all_results == loc.all_results \o elements
             reported == Get(out.value, "total")
             total == IF reported = None THEN 0 ELSE reported[1]
         IN  IF elements = <<>> THEN Return(loc.all_results)
             ELSE IF loc.offset + PageSize >= total THEN Return(all_results)
             ELSE get_paginated_results(a.endpoint, a.params, all_results,
                                        loc.offset + PageSize)

-----------------------------------------------------------------------------
(* The reference-data cache *)

\* self._cache_timeout = timedelta(minutes=5), in minutes
CacheTimeout == 5

\* The last minute of the clock
MaxTime == 6

ReferenceUrl(cache_key) ==
    CASE cache_key = "work_package_types" -> "/types"
      [] cache_key = "work_package_statuses" -> "/statuses"
      [] cache_key = "priorities" -> "/priorities"

ReferenceArgs == [cache_key : CacheKeys, use_cache : BOOLEAN]

AllReferenceArgs == [cache_key : ReferenceKeys, use_cache : BOOLEAN]

\* _fetch_work_package_types, _fetch_work_package_statuses and _fetch_priorities
\* up to their await
fetch_reference(cache_key, loc) ==
    Await("fetch", "GET", ReferenceUrl(cache_key), None, loc)

\* An entry of exactly the timeout still counts as fresh
CacheHitInclusive(entry, now) ==
    entry.present /\ now - entry.timestamp <= CacheTimeout

\* The lookup of get_cached_or_fetch: the entry is present and not yet stale
CacheHit(entry, now) == entry.present /\ now - entry.timestamp < CacheTimeout

\* get_cached_or_fetch up to the await of fetch_func
get_cached_or_fetch(entry, cache_key, now) ==
    IF CacheHit(entry, now)
    THEN Return(entry.data)
    ELSE fetch_reference(cache_key, [now |-> now])

\* The entry is stamped with the time at which fetch_func returned
StoredEntryAtReturn(fresh_data, now, at_return) == Entry(fresh_data, at_return)

\* The entry get_cached_or_fetch stores once fetch_func has returned at time
\* at_return: it is stamped with `now`, the time of the lookup
StoredEntry(fresh_data, now, at_return) == Entry(fresh_data, now)

\* get_work_package_types, get_work_package_statuses and get_priorities up to
\* their await
get_reference(a, entry, now) ==
    IF a.use_cache
    THEN get_cached_or_fetch(entry, a.cache_key, now)
    ELSE fetch_reference(a.cache_key, EmptyObject)

\* A failed fetch answered with no elements
get_reference_fetched_or_nothing(out) ==
    IF out.raised THEN Return(<<>>) ELSE Return(Elements(out.value))

\* The same from the outcome of the fetch to their return
get_reference_fetched(out) ==
    IF out.raised THEN Raise(out.error) ELSE Return(Elements(out.value))

\* An entry is stored even when the fetch raised
CacheAfterFetchOnFailure(c, a, loc, out, at_return) ==
    IF ~a.use_cache THEN c
    ELSE IF out.raised THEN [c EXCEPT ![a.cache_key] = Entry(<<>>, loc.now)]
    ELSE [c EXCEPT ![a.cache_key] = StoredEntry(Elements(out.value), loc.now, at_return)]

\* The cache once the fetch has ended with `out`
CacheAfterFetch(c, a, loc, out, at_return) ==
    IF a.use_cache /\ ~out.raised
    THEN [c EXCEPT ![a.cache_key] = StoredEntry(Elements(out.value), loc.now, at_return)]
    ELSE c

\* _clear_cache_key
ClearedKey(c, cache_key) ==
    IF c[cache_key].present THEN [c EXCEPT ![cache_key] = NoEntry] ELSE c

\* _clear_all_cache
ClearedAll(c) == [k \in DOMAIN c |-> NoEntry]

-----------------------------------------------------------------------------
(* OpenProjectAPIError.__init__ over every kind of JSON body *)

\* A decoded JSON value, tagged with its Python type
JNull == [t |-> "null"]

JNumber(n) == [t |-> "number", n |-> n]

JString(s) == [t |-> "string", s |-> s]

JArray(items) == [t |-> "array", items |-> items]

JObject(members) == [t |-> "object", members |-> members]

\* bool(value)
Truthy(j) ==
    CASE j.t = "null" -> FALSE
      [] j.t = "number" -> j.n # 0
      [] j.t = "string" -> j.s # ""
      [] j.t = "array" -> j.items # <<>>
      [] j.t = "object" -> DOMAIN j.members # {}

\* key in value, for the values on which `in` is defined: membership of a
\* dict's keys and of a list's items, and the substring test of a str (the
\* strings of JsonBodies hold the key exactly or not at all)
Contains(j, key) ==
    CASE j.t = "object" -> key \in DOMAIN j.members
      [] j.t = "array" -> \E i \in DOMAIN j.items : j.items[i] = JString(key)
      [] j.t = "string" -> j.s = key

\* The truthy messages the loop over `errors` appends: a dict contributes
\* its "message", the characters of a str and the keys of a dict are no dicts
AppendedMessages(errors) ==
    IF errors.t # "array" THEN {}
    ELSE { errors.items[i].members["message"] :
             i \in { i \in DOMAIN errors.items :
                       /\ errors.items[i].t = "object"
                       /\ "message" \in DOMAIN errors.items[i].members
                       /\ Truthy(errors.items[i].members["message"]) } }

\* The exception the block on "_embedded" ends with, "" when it completes
EmbeddedErrorsRaise(response_data) ==
    IF ~Truthy(response_data) THEN ""
    ELSE IF response_data.t = "number" THEN "TypeError"
    ELSE IF ~Contains(response_data, "_embedded") THEN ""
    ELSE IF response_data.t # "object" THEN "AttributeError"
    ELSE LET embedded == response_data.members["_embedded"]
         IN  IF embedded.t # "object" THEN "AttributeError"
             ELSE LET errors == IF "errors" \in DOMAIN embedded.members
                                THEN embedded.members["errors"]
                                ELSE JArray(<<>>)
                  IN  IF ~Truthy(errors) THEN ""
                      ELSE IF errors.t = "number" THEN "TypeError"
                      ELSE IF \E m \in AppendedMessages(errors) : m.t # "string"
                           THEN "TypeError"
                           ELSE ""

\* The exception the read of "error_code" ends with, "" when it completes
ErrorCodeRaise(response_data) ==
    IF Truthy(response_data) /\ response_data.t # "object"
    THEN "AttributeError"
    ELSE ""

\* The exception the constructor ends with, "" when it completes: the block
\* on "errors" runs on a dict or a falsy value only, and raises on neither
ConstructionRaise(response_data) ==
    IF EmbeddedErrorsRaise(response_data) # ""
    THEN EmbeddedErrorsRaise(response_data)
    ELSE ErrorCodeRaise(response_data)

\* The values of _embedded.errors
JsonErrorLists ==
    { JNull, JNumber(0), JNumber(5), JString("abc"), JArray(<<>>),
      JArray(<<JString("x")>>),
      JArray(<<JObject(EmptyObject)>>),
      JArray(<<JObject("message" :> JString("Subject can't be blank."))>>),
      JArray(<<JObject("message" :> JNumber(5))>>),
      JObject("message" :> JString("x")) }

\* The values of _embedded
JsonEmbedded ==
    { JNull, JNumber(5), JString("x"), JArray(<<>>), JObject(EmptyObject) }
        \cup { JObject("errors" :> e) : e \in JsonErrorLists }

\* The values of the top-level errors
JsonValidationErrors ==
    { JNull, JNumber(5), JString("x"), JArray(<<JString("x")>>),
      JObject("subject" :> JArray(<<JString("can't be blank")>>)),
      JObject("subject" :> JString("can't be blank")) }

\* The bodies a failure response can carry: any JSON value
JsonBodies ==
    { JNull, JNumber(0), JNumber(5), JString(""), JString("abc"),
      JString("_embedded"), JArray(<<>>), JArray(<<JString("x")>>),
      JArray(<<JString("_embedded")>>), JObject(EmptyObject),
      JObject("error_code" :> JString("E1")) }
        \cup { JObject("_embedded" :> e) : e \in JsonEmbedded }
        \cup { JObject("errors" :> v) : v \in JsonValidationErrors }
        \cup { JObject(("_embedded" :> e) @@ ("errors" :> v)) :
                 e \in JsonEmbedded, v \in JsonValidationErrors }

ErrorArgs == [status_code : {400, 404, 500}, response_data : JsonBodies]

\* OpenProjectAPIError(f"HTTP {status_code}", status_code, response_data);
\* the message of a completed construction is ErrorMessage's
new_api_error(a) ==
    IF ConstructionRaise(a.response_data) = ""
    THEN Return([status_code |-> a.status_code,
                 response_data |-> IF Truthy(a.response_data)
                                   THEN a.response_data
                                   ELSE JObject(EmptyObject)])
    ELSE Raise([type |-> ConstructionRaise(a.response_data)])

-----------------------------------------------------------------------------

(* Running a handler: from the entry or from an outcome to the next await *)

RequestEvent(req) == [ev |-> "request", request |-> req]

OutcomeEvent(out) == [ev |-> "outcome", outcome |-> out]

Proceed(t, tr, d) ==
    IF d.next = "await"
    THEN /\ pc' = [pc EXCEPT ![t] = d.at]
         /\ local' = [local EXCEPT ![t] = d.local]
         /\ inflight' = [inflight EXCEPT ![t] = d.request]
         /\ trace' = [trace EXCEPT ![t] = Append(tr, RequestEvent(d.request))]
         /\ UNCHANGED result
    ELSE /\ pc' = [pc EXCEPT ![t] = "done"]
         /\ inflight' = [inflight EXCEPT ![t] = NoRequest]
         /\ trace' = [trace EXCEPT ![t] = tr]
         /\ result' = [result EXCEPT ![t] = d.result]
         /\ UNCHANGED local

Begin(t, o, a, d) ==
    /\ pc[t] = "idle"
    /\ op' = [op EXCEPT ![t] = o]
    /\ args' = [args EXCEPT ![t] = a]
    /\ after_close' = [after_close EXCEPT ![t] = closed]
    /\ Proceed(t, <<>>, d)

Reached(t, o, at) == op[t] = o /\ pc[t] = at

Continue(t, out, d) ==
    /\ UNCHANGED <<op, args, after_close>>
    /\ Proceed(t, Append(trace[t], OutcomeEvent(out)), d)

Environment == <<cache, clock, cleared, first, closed, remote_version>>

\* self.client.request on a closed client raises RuntimeError, which no
\* except clause of _make_request catches
ClientClosed ==
    Raised([type |-> "RuntimeError",
            message |-> "Cannot send a request, as the client has been closed."])

IsApiError(e) == "type" \notin DOMAIN e

\* The outcomes _make_request can have for the request task t awaits, the
\* transport answering with one of `responses` while the client is open
Dispatch(t, responses) ==
    IF after_close[t] THEN {ClientClosed}
    ELSE { MakeRequestOutcome(resp) : resp \in responses }

Outcomes(t, id) == Dispatch(t, Responses(pc[t], id))

ToolUpdateWorkPackage(t) ==
    /\ \E a \in UpdateArgs :
          Begin(t, "tool.update_work_package", a, tool_update_work_package(a))
    /\ UNCHANGED Environment

ToolUpdateWorkPackageFetched(t) ==
    /\ Reached(t, "tool.update_work_package", "get_wp")
    /\ \E out \in Outcomes(t, args[t].work_package_id) :
          Continue(t, out, tool_update_work_package_fetched(args[t], out))
    /\ UNCHANGED Environment

ToolUpdateWorkPackagePatched(t) ==
    /\ Reached(t, "tool.update_work_package", "patch_wp")
    /\ \E out \in Outcomes(t, args[t].work_package_id) :
          Continue(t, out, tool_update_work_package_patched(args[t], out))
    /\ UNCHANGED Environment

ToolAssign(t) ==
    /\ \E a \in AssignArgs :
          Begin(t, "tool.assign_work_package_by_email", a,
                tool_assign_work_package_by_email(a))
    /\ UNCHANGED Environment

ToolAssignLookedUp(t) ==
    /\ Reached(t, "tool.assign_work_package_by_email", "get_users")
    /\ \E out \in Outcomes(t, 0) :
          Continue(t, out, tool_assign_work_package_by_email_looked_up(args[t], out))
    /\ UNCHANGED Environment

ToolAssignFetched(t) ==
    /\ Reached(t, "tool.assign_work_package_by_email", "get_wp")
    /\ \E out \in Outcomes(t, args[t].work_package_id) :
          Continue(t, out,
                   tool_assign_work_package_by_email_fetched(args[t], local[t], out))
    /\ UNCHANGED Environment

ToolAssignPatched(t) ==
    /\ Reached(t, "tool.assign_work_package_by_email", "patch_wp")
    /\ \E out \in Outcomes(t, args[t].work_package_id) :
          Continue(t, out,
                   tool_assign_work_package_by_email_patched(args[t], local[t], out))
    /\ UNCHANGED Environment

ToolSearch(t) ==
    /\ \E a \in SearchArgs :
          Begin(t, "tool.search_work_packages", a, tool_search_work_packages(a))
    /\ UNCHANGED Environment

ToolSearchReturned(t) ==
    /\ Reached(t, "tool.search_work_packages", "collection")
    /\ \E out \in Outcomes(t, 0) :
          Continue(t, out, tool_search_work_packages_returned(args[t], out))
    /\ UNCHANGED Environment

ToolCreateWorkPackage(t) ==
    /\ \E a \in CreateArgs :
          Begin(t, "tool.create_work_package", a, tool_create_work_package(a))
    /\ UNCHANGED Environment

ToolCreateWorkPackageReturned(t) ==
    /\ Reached(t, "tool.create_work_package", "entity")
    /\ \E out \in Outcomes(t, 1) :
          Continue(t, out, tool_create_work_package_returned(args[t], out))
    /\ UNCHANGED Environment

ToolComment(t) ==
    /\ \E a \in CommentArgs :
          Begin(t, "tool.add_work_package_comment", a, tool_add_work_package_comment(a))
    /\ UNCHANGED Environment

ToolCommentReturned(t) ==
    /\ Reached(t, "tool.add_work_package_comment", "other")
    /\ \E out \in Outcomes(t, 0) :
          Continue(t, out, tool_add_work_package_comment_returned(args[t], out))
    /\ UNCHANGED Environment

ClientCall(t) ==
    /\ \E c \in ClientCalls : Begin(t, "client." \o c.name, c, client_call(c))
    /\ UNCHANGED Environment

ClientCallReturned(t) ==
    /\ pc[t] \notin {"idle", "done"}
    /\ \E c \in ClientCalls : op[t] = "client." \o c.name /\ args[t] = c
    /\ \E out \in Outcomes(t, 1) :
          Continue(t, out, client_call_returned(args[t], out))
    /\ UNCHANGED Environment

ClientGetUserByEmail(t) ==
    /\ \E email \in Emails :
          Begin(t, "client.get_user_by_email", [email |-> email],
                get_user_by_email(email, EmptyObject))
    /\ UNCHANGED Environment

ClientGetUserByEmailReturned(t) ==
    /\ Reached(t, "client.get_user_by_email", "get_users")
    /\ \E out \in Outcomes(t, 0) :
          Continue(t, out, client_get_user_by_email_returned(out))
    /\ UNCHANGED Environment

TestConnection(t) ==
    /\ Begin(t, "client.test_connection", EmptyObject, test_connection)
    /\ UNCHANGED Environment

TestConnectionReturned(t) ==
    /\ Reached(t, "client.test_connection", "root")
    /\ \E out \in Outcomes(t, 0) :
          Continue(t, out, test_connection_returned(out))
    /\ UNCHANGED Environment

GetReference(t, A) ==
    /\ \E a \in A :
          /\ Begin(t, "client.get_reference", a,
                   get_reference(a, cache[a.cache_key], clock))
          /\ first' = [first EXCEPT ![t] = a.use_cache /\ cleared[a.cache_key]]
          /\ cleared' = [cleared EXCEPT ![a.cache_key] = @ /\ ~a.use_cache]
    /\ UNCHANGED <<remote_version, cache, clock, closed>>

GetReferenceFetched(t) ==
    /\ Reached(t, "client.get_reference", "fetch")
    /\ \E out \in Outcomes(t, 0) :
          /\ Continue(t, out, get_reference_fetched(out))
          /\ cache' = CacheAfterFetch(cache, args[t], local[t], out, clock)
    /\ UNCHANGED <<remote_version, clock, cleared, first, closed>>

MakeRequest(t) ==
    /\ \E a \in DispatchArgs :
          Begin(t, "client._make_request", a, make_request(a.method, a.url))
    /\ UNCHANGED Environment

MakeRequestReturned(t) ==
    /\ Reached(t, "client._make_request", "dispatch")
    /\ \E out \in Dispatch(t, {args[t].response}) :
          Continue(t, out, make_request_returned(out))
    /\ UNCHANGED Environment

GetPaginatedResults(t) ==
    /\ \E a \in WalkArgs :
          Begin(t, "client.get_paginated_results", a,
                get_paginated_results(a.endpoint, a.params, <<>>, 0))
    /\ UNCHANGED Environment

GetPaginatedResultsPage(t) ==
    /\ Reached(t, "client.get_paginated_results", "page")
    /\ \E out \in Dispatch(t, PageResponses(args[t].remote, inflight[t].params[1])) :
          Continue(t, out, get_paginated_results_page(args[t], local[t], out))
    /\ UNCHANGED Environment

HealthCheck(t) ==
    /\ \E env \in Environments :
          Begin(t, "script.health_check", env, health_check(env))
    /\ UNCHANGED Environment

\* check_health's `finally` closes the client the script constructed
HealthCheckTested(t) ==
    /\ Reached(t, "script.health_check", "root")
    /\ \E out \in Outcomes(t, 0) : Continue(t, out, main(out))
    /\ closed' = TRUE
    /\ UNCHANGED <<remote_version, cache, clock, cleared, first>>

\* The process is gone, and its client with it
HealthCheckExited(t) ==
    /\ Reached(t, "script.health_check", "done")
    /\ pc' = [pc EXCEPT ![t] = "idle"]
    /\ op' = [op EXCEPT ![t] = "none"]
    /\ args' = [args EXCEPT ![t] = EmptyObject]
    /\ local' = [local EXCEPT ![t] = EmptyObject]
    /\ trace' = [trace EXCEPT ![t] = <<>>]
    /\ result' = [result EXCEPT ![t] = NoResult]
    /\ closed' = FALSE
    /\ UNCHANGED <<remote_version, inflight, cache, clock, cleared, first, after_close>>

\* close(): self.client.aclose()
Close ==
    /\ closed' = TRUE
    /\ UNCHANGED <<remote_version, pc, op, args, local, inflight, trace, result, cache,
                   clock, cleared,
                   first, after_close>>

ClearCacheKey(k) ==
    /\ cache' = ClearedKey(cache, k)
    /\ cleared' = [cleared EXCEPT ![k] = TRUE]
    /\ UNCHANGED <<remote_version, pc, op, args, local, inflight, trace, result, clock, first,
                   closed, after_close>>

ClearAllCache ==
    /\ cache' = ClearedAll(cache)
    /\ cleared' = [k \in DOMAIN cleared |-> TRUE]
    /\ UNCHANGED <<remote_version, pc, op, args, local, inflight, trace, result, clock, first,
                   closed, after_close>>

\* A minute passes
Tick ==
    /\ clock < MaxTime
    /\ clock' = clock + 1
    /\ UNCHANGED <<remote_version, pc, op, args, local, inflight, trace, result, cache,
                   cleared, first,
                   closed, after_close>>

\* An OpenProjectAPIError is constructed for a failure response
NewApiError(t) ==
    /\ \E a \in ErrorArgs : Begin(t, "OpenProjectAPIError", a, new_api_error(a))
    /\ UNCHANGED Environment

\* The client's search_work_packages called directly
ClientSearch(t) ==
    /\ \E c \in ClientSearchArgs :
          Begin(t, "client.search_work_packages", c, search_work_packages(c))
    /\ UNCHANGED Environment

ClientSearchReturned(t) ==
    /\ Reached(t, "client.search_work_packages", "collection")
    /\ \E out \in Outcomes(t, 0) :
          Continue(t, out, search_work_packages_returned(out))
    /\ UNCHANGED Environment

ToolCreateProject(t) ==
    /\ \E a \in ProjectArgs :
          Begin(t, "tool.create_project", a, tool_create_project(a))
    /\ UNCHANGED Environment

ToolCreateProjectReturned(t) ==
    /\ Reached(t, "tool.create_project", "entity")
    /\ \E out \in Outcomes(t, 1) :
          Continue(t, out, tool_create_project_returned(args[t], out))
    /\ UNCHANGED Environment

\* The client's create_work_package_relation called directly
ClientCreateRelation(t) ==
    /\ \E a \in RelationArgs :
          Begin(t, "client.create_work_package_relation", a,
                create_work_package_relation(a))
    /\ UNCHANGED Environment

ClientCreateRelationReturned(t) ==
    /\ Reached(t, "client.create_work_package_relation", "entity")
    /\ \E out \in Outcomes(t, 1) :
          Continue(t, out, create_work_package_relation_returned(out))
    /\ UNCHANGED Environment

\* The update tool runs against a remote service that holds work package 1
\* under optimistic locking
UpdateOnRemote(t) ==
    /\ remote_version < MaxVersion
    /\ \E a \in RemoteUpdateArgs :
          Begin(t, "tool.update_work_package", a, tool_update_work_package(a))
    /\ UNCHANGED Environment

\* The remote service answers the GET with the version it holds
UpdateOnRemoteFetched(t) ==
    /\ Reached(t, "tool.update_work_package", "get_wp")
    /\ \E out \in Dispatch(t, {HttpResponse(200,
                   JsonContent(WorkPackageBody(1, Some(remote_version))))}) :
          Continue(t, out, tool_update_work_package_fetched(args[t], out))
    /\ UNCHANGED Environment

\* The remote service accepts the PATCH when it carries the version held,
\* and then increments the version; it answers 409 otherwise
UpdateOnRemotePatched(t) ==
    /\ Reached(t, "tool.update_work_package", "patch_wp")
    /\ LET accepted == inflight[t].json[1]["lockVersion"] = remote_version
           response == IF accepted
                       THEN HttpResponse(200, JsonContent(
                                WorkPackageBody(1, Some(remote_version + 1))))
                       ELSE HttpResponse(409, JsonContent(ConflictBody))
       IN  /\ \E out \in Dispatch(t, {response}) :
                 Continue(t, out, tool_update_work_package_patched(args[t], out))
           /\ remote_version' = IF accepted THEN remote_version + 1
                                ELSE remote_version
    /\ UNCHANGED <<cache, clock, cleared, first, closed>>

\* The task is free for the next invocation
Finished(t) ==
    /\ pc[t] = "done"
    /\ pc' = [pc EXCEPT ![t] = "idle"]
    /\ op' = [op EXCEPT ![t] = "none"]
    /\ args' = [args EXCEPT ![t] = EmptyObject]
    /\ local' = [local EXCEPT ![t] = EmptyObject]
    /\ trace' = [trace EXCEPT ![t] = <<>>]
    /\ result' = [result EXCEPT ![t] = NoResult]
    /\ first' = [first EXCEPT ![t] = FALSE]
    /\ after_close' = [after_close EXCEPT ![t] = FALSE]
    /\ UNCHANGED <<remote_version, inflight, cache, clock, cleared, closed>>

-----------------------------------------------------------------------------
Init ==
    /\ pc = [t \in Tasks |-> "idle"]
    /\ op = [t \in Tasks |-> "none"]
    /\ args = [t \in Tasks |-> EmptyObject]
    /\ local = [t \in Tasks |-> EmptyObject]
    /\ inflight = [t \in Tasks |-> NoRequest]
    /\ trace = [t \in Tasks |-> <<>>]
    /\ result = [t \in Tasks |-> NoResult]
    /\ cache = [k \in CacheSlots |-> NoEntry]
    /\ clock = 0
    /\ cleared = [k \in ReferenceKeys |-> FALSE]
    /\ first = [t \in Tasks |-> FALSE]
    /\ closed = FALSE
    /\ after_close = [t \in Tasks |-> FALSE]
    /\ remote_version = 0

\* One tool or client call at a time
Caller == "t1"

Next ==
    \/ ToolUpdateWorkPackage(Caller)
    \/ ToolUpdateWorkPackageFetched(Caller)
    \/ ToolUpdateWorkPackagePatched(Caller)
    \/ ToolAssign(Caller)
    \/ ToolAssignLookedUp(Caller)
    \/ ToolAssignFetched(Caller)
    \/ ToolAssignPatched(Caller)
    \/ ToolSearch(Caller)
    \/ ToolSearchReturned(Caller)
    \/ ToolCreateWorkPackage(Caller)
    \/ ToolCreateWorkPackageReturned(Caller)
    \/ ToolComment(Caller)
    \/ ToolCommentReturned(Caller)
    \/ ClientCall(Caller)
    \/ ClientCallReturned(Caller)
    \/ ClientGetUserByEmail(Caller)
    \/ ClientGetUserByEmailReturned(Caller)
    \/ TestConnection(Caller)
    \/ TestConnectionReturned(Caller)
    \/ Finished(Caller)

Spec == Init /\ [][Next]_vars

\* The reference data is looked up, with and without the cache, while the
\* clock advances and the cache is cleared
NextCache ==
    \/ GetReference(Caller, ReferenceArgs)
    \/ GetReferenceFetched(Caller)
    \/ Finished(Caller)
    \/ \E k \in CacheKeys : ClearCacheKey(k)
    \/ ClearAllCache
    \/ Tick

SpecCache == Init /\ [][NextCache]_vars

\* Cached lookups of one key run concurrently on one client
RaceArgs == [cache_key : {"work_package_types"}, use_cache : {TRUE}]

NextRace ==
    \/ \E t \in Tasks : GetReference(t, RaceArgs)
    \/ \E t \in Tasks : GetReferenceFetched(t)
    \/ \E t \in Tasks : Finished(t)
    \/ ClearCacheKey("work_package_types")
    \/ ClearAllCache
    \/ Tick

SpecRace == Init /\ [][NextRace]_vars

\* The client is used, closed, and used again
NextClose ==
    \/ ClientCall(Caller)
    \/ ClientCallReturned(Caller)
    \/ TestConnection(Caller)
    \/ TestConnectionReturned(Caller)
    \/ GetReference(Caller, ReferenceArgs)
    \/ GetReferenceFetched(Caller)
    \/ Finished(Caller)
    \/ Close

SpecClose == Init /\ [][NextClose]_vars

\* The health check script is run in every environment
NextHealth ==
    \/ HealthCheck(Caller)
    \/ HealthCheckTested(Caller)
    \/ HealthCheckExited(Caller)

SpecHealth == Init /\ [][NextHealth]_vars

\* _make_request is called against every kind of response
NextDispatch ==
    \/ MakeRequest(Caller)
    \/ MakeRequestReturned(Caller)
    \/ Finished(Caller)

SpecDispatch == Init /\ [][NextDispatch]_vars

\* The pagination walker runs against remote collections of every size
NextWalk ==
    \/ GetPaginatedResults(Caller)
    \/ GetPaginatedResultsPage(Caller)
    \/ Finished(Caller)

SpecWalk == Init /\ [][NextWalk]_vars

-----------------------------------------------------------------------------
\* The error is constructed for every kind of failure body
NextError ==
    \/ NewApiError(Caller)
    \/ Finished(Caller)

SpecError == Init /\ [][NextError]_vars

-----------------------------------------------------------------------------

\* Work packages are searched through the client and through the tool
NextSearch ==
    \/ ClientSearch(Caller)
    \/ ClientSearchReturned(Caller)
    \/ ToolSearch(Caller)
    \/ ToolSearchReturned(Caller)
    \/ Finished(Caller)

SpecSearch == Init /\ [][NextSearch]_vars

-----------------------------------------------------------------------------

\* Projects, work packages and relations are created
NextCreate ==
    \/ ToolCreateProject(Caller)
    \/ ToolCreateProjectReturned(Caller)
    \/ ToolCreateWorkPackage(Caller)
    \/ ToolCreateWorkPackageReturned(Caller)
    \/ ClientCreateRelation(Caller)
    \/ ClientCreateRelationReturned(Caller)
    \/ Finished(Caller)

SpecCreate == Init /\ [][NextCreate]_vars

-----------------------------------------------------------------------------

\* Reference data is looked up under every key while entities are read
NextReads ==
    \/ GetReference(Caller, AllReferenceArgs)
    \/ GetReferenceFetched(Caller)
    \/ ClientCall(Caller)
    \/ ClientCallReturned(Caller)
    \/ Finished(Caller)

SpecReads == Init /\ [][NextReads]_vars

-----------------------------------------------------------------------------

\* Updates of one work package run concurrently against the remote service
NextUpdate ==
    \/ \E t \in Tasks : UpdateOnRemote(t)
    \/ \E t \in Tasks : UpdateOnRemoteFetched(t)
    \/ \E t \in Tasks : UpdateOnRemotePatched(t)
    \/ \E t \in Tasks : Finished(t)

SpecUpdate == Init /\ [][NextUpdate]_vars

-----------------------------------------------------------------------------

(* Reading an operation's trace *)

IsRequest(t, i, method) ==
    trace[t][i].ev = "request" /\ trace[t][i].request.method = method

\* Event i is the outcome of a request that returned a body
IsReturn(t, i) == trace[t][i].ev = "outcome" /\ ~trace[t][i].outcome.raised

\* Event i is the outcome of a request for which _make_request raised
IsRaise(t, i) == trace[t][i].ev = "outcome" /\ trace[t][i].outcome.raised

\* Request i is a GET of the same URL as request j, it comes first and it
\* returned a body with a lockVersion
FetchedBefore(t, i, j) ==
    /\ i + 1 < j
    /\ IsRequest(t, i, "GET")
    /\ trace[t][i].request.url = trace[t][j].request.url
    /\ IsReturn(t, i + 1)
    /\ Get(trace[t][i + 1].outcome.value, "lockVersion") # None

Sent(t, method) == { i \in 1..Len(trace[t]) : IsRequest(t, i, method) }

UpdateTools == {"tool.update_work_package", "tool.assign_work_package_by_email"}

-----------------------------------------------------------------------------
(* C1..C7: the optimistic-update protocol and the propagation of errors *)

\* C1: every PATCH of a work package is preceded, in the same operation, by
\* a GET of the same work package that returned a lockVersion - in the
\* client's update_work_package as in the two tools that update.
C1_PatchAfterGet ==
    \A t \in Tasks : \A j \in Sent(t, "PATCH") :
        \E i \in Sent(t, "GET") : FetchedBefore(t, i, j)

\* C2: in the update_work_package and assign_work_package_by_email tools, the
\* lockVersion of every PATCH payload is the lockVersion the latest earlier
\* GET of that work package returned.
C2_LockVersionRead ==
    \A t \in Tasks : op[t] \in UpdateTools =>
        \A j \in Sent(t, "PATCH") :
            LET gets == { i \in Sent(t, "GET") : FetchedBefore(t, i, j) }
                json == trace[t][j].request.json[1]
            IN  /\ gets # {}
                /\ "lockVersion" \in DOMAIN json
                /\ \E i \in gets :
                      /\ \A k \in gets : k <= i
                      /\ Some(json["lockVersion"])
                           = Get(trace[t][i + 1].outcome.value, "lockVersion")

C2_Witness ==
    \E t \in Tasks :
        /\ op[t] = "tool.assign_work_package_by_email"
        /\ \E j \in Sent(t, "PATCH") : trace[t][j].request.json[1]["lockVersion"] = 1

NoFieldSupplied(a) ==
    /\ a.subject = None
    /\ a.description = None
    /\ a.start_date = None
    /\ a.due_date = None
    /\ a.assignee_id = None
    /\ a.status_id = None
    /\ a.estimated_hours = None

\* C3: the update_work_package tool called with no field besides the id ends
\* in a failure result without a PATCH, and every PATCH payload it sends
\* has a key besides lockVersion.
C3_NoEmptyUpdate ==
    \A t \in Tasks : op[t] = "tool.update_work_package" =>
        /\ \A j \in Sent(t, "PATCH") :
              DOMAIN trace[t][j].request.json[1] \ {"lockVersion"} # {}
        /\ NoFieldSupplied(args[t]) =>
              /\ Sent(t, "PATCH") = {}
              /\ pc[t] = "done" =>
                    result[t].kind = "return" /\ ~result[t].value.success

C3_Witness ==
    \E t \in Tasks :
        /\ op[t] = "tool.update_work_package"
        /\ NoFieldSupplied(args[t])
        /\ pc[t] = "done"
        /\ Len(trace[t]) = 2
        /\ IsReturn(t, 2)
        /\ Get(trace[t][2].outcome.value, "lockVersion") = Some(0)
        /\ result[t].value.error
             = "No updates provided. Specify at least one field to update."

\* The results a tool gives for a GET of the work package that failed
FailedGetResults(id) ==
    { ApiErrorResult(out.error).result :
        out \in { o \in { MakeRequestOutcome(resp) : resp \in Responses("get_wp", id) } :
                    o.raised } }

\* The GET of the work package returned a body without a lockVersion
NoLockVersion(t) ==
    \E i \in Sent(t, "GET") :
        /\ i < Len(trace[t])
        /\ trace[t][i].request.url = WorkPackageUrl(args[t].work_package_id)
        /\ IsReturn(t, i + 1)
        /\ Get(trace[t][i + 1].outcome.value, "lockVersion") = None

\* C4: when the GET of the work package succeeds without a lockVersion, the
\* tool ends in a failure result that no failed GET produces, and sends no
\* PATCH.
C4_MissingLockVersion ==
    \A t \in Tasks : (op[t] \in UpdateTools /\ NoLockVersion(t)) =>
        /\ pc[t] = "done"
        /\ result[t].kind = "return"
        /\ ~result[t].value.success
        /\ result[t] \notin FailedGetResults(args[t].work_package_id)
        /\ Sent(t, "PATCH") = {}

C4_Witness ==
    \E t \in Tasks :
        /\ op[t] = "tool.update_work_package"
        /\ NoLockVersion(t)
        /\ pc[t] = "done"
        /\ result[t] = MissingLockVersion.result

\* C5: one invocation of an updating tool sends at most one GET and at most
\* one PATCH of the work package; once a request has failed it sends nothing
\* more and ends in a failure result; every call of _make_request is one
\* request followed by one outcome.
C5_NoRetry ==
    \A t \in Tasks : op[t] \in UpdateTools =>
        LET url == WorkPackageUrl(args[t].work_package_id)
            to(method) == { i \in Sent(t, method) : trace[t][i].request.url = url }
        IN  /\ Cardinality(to("GET")) <= 1
            /\ Cardinality(to("PATCH")) <= 1
            /\ \A i \in 1..Len(trace[t]) :
                  /\ (trace[t][i].ev = "request") = (i % 2 = 1)
                  /\ IsRaise(t, i) =>
                        /\ i = Len(trace[t])
                        /\ pc[t] = "done"
                        /\ result[t].kind = "return"
                        /\ ~result[t].value.success

C5_Witness ==
    \E t \in Tasks :
        /\ op[t] = "tool.update_work_package"
        /\ pc[t] = "done"
        /\ Len(trace[t]) = 4
        /\ IsRaise(t, 4)
        /\ trace[t][4].outcome.error.status_code = Some(409)

\* The messages of the failures that reject the caller's input
InputRejections ==
    { "Work package ID must be a positive integer",
      "Project ID must be a positive integer",
      "Work package subject is required and cannot be empty",
      "Start date must be in YYYY-MM-DD format",
      "Due date must be in YYYY-MM-DD format",
      "Invalid date format for created_after. Use YYYY-MM-DD format.",
      "Invalid date format for created_before. Use YYYY-MM-DD format.",
      "Invalid date format for due_after. Use YYYY-MM-DD format.",
      "Invalid date format for due_before. Use YYYY-MM-DD format.",
      "page_size must be between 1 and 100",
      "offset must be non-negative",
      "Invalid JSON in custom_filters",
      "custom_filters must be a JSON array",
      "Comment cannot be empty",
      "Valid email address is required",
      "Validation error",
      "No updates provided. Specify at least one field to update." }

\* The operation ended by rejecting the caller's input
Rejected(t) ==
    /\ pc[t] = "done"
    /\ result[t].kind = "return"
    /\ "error" \in DOMAIN result[t].value
    /\ result[t].value.error \in InputRejections

\* C6: an operation that rejects the caller's input for a local precondition
\* has sent no request.
C6_RejectBeforeRequest == \A t \in Tasks : Rejected(t) => trace[t] = <<>>

ClientOperations ==
    { "client." \o c.name : c \in ClientCalls }
    \cup {"client.get_user_by_email", "client.get_reference"}

\* C7: a client operation other than test_connection in which _make_request
\* raised an error raises that same error.
C7_ErrorsPropagate ==
    \A t \in Tasks : (op[t] \in ClientOperations /\ pc[t] = "done") =>
        \A i \in 1..Len(trace[t]) : IsRaise(t, i) =>
            result[t] = [kind |-> "raise", error |-> trace[t][i].outcome.error]

-----------------------------------------------------------------------------
(* C8..C10: the reference-data cache *)

\* The step in which task t enters get_cached_or_fetch for the key of `a`
Lookup(t) ==
    /\ pc[t] = "idle"
    /\ op'[t] = "client.get_reference"
    /\ args'[t].use_cache

\* C8: a lookup that finds an entry younger than 5 minutes returns the stored
\* value without invoking fetch; one that finds an entry of 5 minutes or
\* more invokes fetch.
C8_CacheTtl ==
    [][\A t \in Tasks : Lookup(t) =>
          LET entry == cache[args'[t].cache_key]
          IN  /\ (entry.present /\ clock - entry.timestamp < 5) =>
                    /\ pc'[t] = "done"
                    /\ result'[t] = [kind |-> "return", value |-> entry.data]
                    /\ trace'[t] = <<>>
              /\ (entry.present /\ clock - entry.timestamp >= 5) =>
                    /\ pc'[t] = "fetch"
                    /\ Len(trace'[t]) = 1
                    /\ trace'[t][1].ev = "request"]_vars

C8_Witness ==
    \E t \in Tasks :
        /\ Reached(t, "client.get_reference", "fetch")
        /\ args[t].use_cache
        /\ cache[args[t].cache_key].present
        /\ local[t].now - cache[args[t].cache_key].timestamp = 5

\* C9: a lookup that finds no entry or a stale one invokes fetch exactly
\* once; when the fetch succeeds the call returns its result and leaves
\* (result, time of the lookup) in the cache under the key.
C9_FetchAndStore ==
    [][\A t \in Tasks :
          /\ (Lookup(t) /\ ~(cache[args'[t].cache_key].present
                             /\ clock - cache[args'[t].cache_key].timestamp < 5)) =>
                /\ pc'[t] = "fetch"
                /\ Len(trace'[t]) = 1
                /\ trace'[t][1].ev = "request"
                /\ local'[t].now = clock
          /\ (Reached(t, "client.get_reference", "fetch") /\ args[t].use_cache
                /\ pc'[t] # "fetch") =>
                /\ pc'[t] = "done"
                /\ Len(trace'[t]) = 2
                /\ IsReturn(t, 2)' =>
                      /\ result'[t] = [kind |-> "return",
                                       value |-> Elements(trace'[t][2].outcome.value)]
                      /\ cache'[args[t].cache_key]
                           = Entry(result'[t].value, local[t].now)]_vars

C9_Witness ==
    \E t \in Tasks :
        /\ Reached(t, "client.get_reference", "done")
        /\ args[t].use_cache
        /\ Len(trace[t]) = 2
        /\ IsReturn(t, 2)
        /\ cache[args[t].cache_key] = Entry(<<"x", "y">>, local[t].now)
        /\ local[t].now < clock

\* C10: the first cached lookup of a key to start after the key was cleared
\* invokes fetch.
C10_ClearTakesEffect ==
    \A t \in Tasks : (first[t] /\ pc[t] = "done") => trace[t] # <<>>

-----------------------------------------------------------------------------
(* C11: concurrent lookups of one key *)

\* The step in which the fetch of task t's cached lookup of key k returns
FetchCompletes(t, k) ==
    /\ Reached(t, "client.get_reference", "fetch")
    /\ args[t].use_cache
    /\ args[t].cache_key = k
    /\ pc'[t] = "done"
    /\ trace'[t][1].request.url = ReferenceUrl(k)
    /\ IsReturn(t, 2)'

\* C11: under every interleaving of cached lookups of one key, an entry
\* appears under the key only when a fetch for that key completes, it is
\* then the pair (value that fetch returned, time of that lookup), a
\* completed fetch always leaves an entry, and every lookup returns either
\* what its own fetch returned or the value of the entry it found.
C11_ConcurrentLookups ==
    [][/\ \A k \in CacheKeys :
             /\ (cache'[k] # cache[k] /\ cache'[k].present) =>
                   \E t \in Tasks :
                       /\ FetchCompletes(t, k)
                       /\ cache'[k] = Entry(Elements(trace'[t][2].outcome.value),
                                            local[t].now)
             /\ \A t \in Tasks : FetchCompletes(t, k) => cache'[k].present
       /\ \A t \in Tasks :
             (/\ pc[t] # "done" /\ pc'[t] = "done"
              /\ op'[t] = "client.get_reference" /\ args'[t].use_cache
              /\ result'[t].kind = "return") =>
                 LET k == args'[t].cache_key
                 IN  \/ /\ FetchCompletes(t, k)
                        /\ result'[t].value = Elements(trace'[t][2].outcome.value)
                     \/ /\ pc[t] = "idle"
                        /\ cache[k].present
                        /\ result'[t].value = cache[k].data]_vars

\* Double population: both lookups fetched, and the entry holds what the
\* second one to complete returned while the first returned something else
C11_Witness ==
    /\ \A t \in Tasks :
          /\ Reached(t, "client.get_reference", "done")
          /\ Len(trace[t]) = 2
          /\ IsReturn(t, 2)
    /\ result["t1"].value # result["t2"].value
    /\ cache["work_package_types"].present
    /\ cache["work_package_types"].data = result["t1"].value

-----------------------------------------------------------------------------
(* C12..C14: the pagination walker *)

Walking(t) == op[t] = "client.get_paginated_results"

\* The events of task t's trace that are requests: the k-th one is event 2k - 1
Requests(t) == { i \in 1..Len(trace[t]) : trace[t][i].ev = "request" }

\* C12: the k-th request of a walk (k = 0, 1, 2, ...) carries pageSize = 100
\* and offset = 100 * k, whatever params the caller passed.
C12_PageParams ==
    \A t \in Tasks : Walking(t) =>
        \A i \in Requests(t) :
            /\ trace[t][i].request.params[1]["pageSize"] = 100
            /\ trace[t][i].request.params[1]["offset"] = 100 * ((i - 1) \div 2)

\* Every request of task t's walk so far was answered with the elements at
\* [offset, offset + 100) of the held collection and total = its size
AnsweredInFull(t) ==
    LET size == args[t].remote.held
    IN  \A i \in Requests(t) :
            /\ i + 1 <= Len(trace[t])
            /\ IsReturn(t, i + 1)
            /\ LET from == trace[t][i].request.params[1]["offset"]
                   body == trace[t][i + 1].outcome.value
               IN  /\ Elements(body)
                        = SubSeq(Held(size), from + 1, Min(from + 100, size))
                   /\ Get(body, "total") = Some(size)

\* C13: against a collection of T elements that reports total = T and answers
\* every request with the elements at [offset, offset + 100), the walk
\* returns the T elements in order, duplicates kept, after exactly
\* max(1, ceil(T / 100)) requests.
C13_WalkReturnsAll ==
    \A t \in Tasks :
        (Walking(t) /\ pc[t] = "done" /\ AnsweredInFull(t)) =>
            LET size == args[t].remote.held
                pages == (size + 99) \div 100
            IN  /\ result[t] = [kind |-> "return", value |-> Held(size)]
                /\ Cardinality(Requests(t)) = IF pages = 0 THEN 1 ELSE pages

\* The elements of the pages returned in the first n events of task t's trace
RECURSIVE Accumulated(_, _)
Accumulated(t, n) ==
    IF n = 0 THEN <<>>
    ELSE Accumulated(t, n - 1)
         \o (IF IsReturn(t, n) THEN Elements(trace[t][n].outcome.value) ELSE <<>>)

\* C14: once a page comes back with zero elements the walk sends no further
\* request and returns the elements of the earlier pages, whatever total
\* reports.
C14_StopsOnEmptyPage ==
    \A t \in Tasks : Walking(t) =>
        \A i \in 1..Len(trace[t]) :
            (IsReturn(t, i) /\ Elements(trace[t][i].outcome.value) = <<>>) =>
                /\ Len(trace[t]) = i
                /\ pc[t] = "done"
                /\ result[t] = [kind |-> "return", value |-> Accumulated(t, i - 1)]

\* The second page is empty although the first reported more than it held
C14_Witness ==
    \E t \in Tasks :
        /\ Walking(t)
        /\ pc[t] = "done"
        /\ Len(trace[t]) = 4
        /\ IsReturn(t, 2)
        /\ Len(Elements(trace[t][2].outcome.value)) = 100
        /\ Get(trace[t][2].outcome.value, "total") = Some(250)
        /\ IsReturn(t, 4)
        /\ Elements(trace[t][4].outcome.value) = <<>>
        /\ Len(result[t].value) = 100

-----------------------------------------------------------------------------
(* C15, C16: the classification of responses by _make_request *)

\* Task t's call of _make_request has ended
Dispatched(t) == Reached(t, "client._make_request", "done")

\* C15: for a response whose status is outside 200..299, _make_request
\* raises an error carrying that status and returns no body.
C15_Non2xxRaises ==
    \A t \in Tasks :
        (/\ Dispatched(t)
         /\ args[t].response.transport = "ok"
         /\ args[t].response.status \notin 200..299) =>
            /\ result[t].kind = "raise"
            /\ result[t].error.status_code = Some(args[t].response.status)

\* C16: a dispatch that obtains no response, a timeout as much as a
\* connection failure, raises an error without status code whose message
\* is "Request failed: " followed by the cause.
C16_TransportFailure ==
    \A t \in Tasks :
        (Dispatched(t) /\ args[t].response.transport = "error") =>
            /\ result[t].kind = "raise"
            /\ IsApiError(result[t].error)
            /\ result[t].error.status_code = None
            /\ result[t].error.message = "Request failed: " \o args[t].response.cause

C16_Witness ==
    \E t \in Tasks :
        /\ Dispatched(t)
        /\ args[t].response = TransportFailure("ReadTimeout")
        /\ result[t].kind = "raise"
        /\ result[t].error.message = "Request failed: ReadTimeout"

-----------------------------------------------------------------------------
(* C20: the message of an error, by the shape of the error body *)

\* Up to three parts joined by "; "
Joined(parts) ==
    CASE Len(parts) = 1 -> parts[1]
      [] Len(parts) = 2 -> parts[1] \o "; " \o parts[2]
      [] Len(parts) = 3 -> parts[1] \o "; " \o parts[2] \o "; " \o parts[3]

\* The non-empty messages of the objects listed under _embedded.errors
ListedMessages(body) ==
    IF "_embedded" \notin DOMAIN body \/ "errors" \notin DOMAIN body._embedded[1]
    THEN <<>>
    ELSE LET withMessage ==
                 SelectSeq(body._embedded[1].errors[1],
                           LAMBDA e : "message" \in DOMAIN e /\ e.message[1] # "")
         IN  [i \in 1..Len(withMessage) |-> withMessage[i].message[1]]

\* The "<field>: <detail>" entries of the field-keyed map under errors, for
\* maps of at most two fields
FieldEntries(body) ==
    IF "errors" \notin DOMAIN body THEN <<>>
    ELSE LET map == body.errors[1]
             of(i) == [j \in 1..Len(map[i][2]) |-> map[i][1] \o ": " \o map[i][2][j]]
         IN  CASE Len(map) = 0 -> <<>>
               [] Len(map) = 1 -> of(1)
               [] Len(map) = 2 -> of(1) \o of(2)

\* C20: the message of the error raised for an error response is the
\* messages listed under _embedded.errors joined by "; " when there are any
\* and the base message otherwise, followed, when the body has a
\* field-keyed errors map with details, by ". Validation errors: " and the
\* "<field>: <detail>" entries joined by "; ".
C20_ErrorMessage ==
    \A t \in Tasks :
        (/\ Dispatched(t)
         /\ args[t].response.transport = "ok"
         /\ args[t].response.status >= 400
         /\ args[t].response.content.form = "json") =>
            LET body == args[t].response.content.value
                base == "API request failed: " \o ToString(args[t].response.status)
                            \o " " \o ReasonPhrase(args[t].response.status)
                listed == ListedMessages(body)
                entries == FieldEntries(body)
                head == IF listed # <<>> THEN Joined(listed) ELSE base
            IN  /\ result[t].kind = "raise"
                /\ result[t].error.message =
                      IF entries # <<>>
                      THEN head \o ". Validation errors: " \o Joined(entries)
                      ELSE head

\* Both shapes at once: "A; B" with the validation entries appended
C20_Witness ==
    \E t \in Tasks :
        /\ Dispatched(t)
        /\ args[t].response.transport = "ok"
        /\ args[t].response.status = 422
        /\ result[t].kind = "raise"
        /\ result[t].error.message = "A; B. Validation errors: subject: is blank"

-----------------------------------------------------------------------------
(* C17: the client after close() *)

\* C17: an operation started after close() has completed ends by raising an
\* OpenProjectAPIError; it never returns data.
C17_FailsAfterClose ==
    \A t \in Tasks :
        (after_close[t] /\ pc[t] = "done") =>
            /\ result[t].kind = "raise"
            /\ IsApiError(result[t].error)

-----------------------------------------------------------------------------
(* C18: the connectivity probe *)

\* C18: test_connection sends exactly one request, GET /, and raises no
\* OpenProjectAPIError: it returns success = TRUE with the remote version
\* when the dispatch returned, and success = FALSE with the failure message
\* when the dispatch raised an OpenProjectAPIError.
C18_TestConnection ==
    \A t \in Tasks : op[t] = "client.test_connection" =>
        /\ Requests(t) = {1}
        /\ trace[t][1].request.method = "GET"
        /\ trace[t][1].request.url = "/"
        /\ pc[t] = "done" =>
              /\ Len(trace[t]) = 2
              /\ result[t].kind = "raise" => ~IsApiError(result[t].error)
              /\ IsReturn(t, 2) =>
                    /\ result[t].kind = "return"
                    /\ result[t].value.success
                    /\ result[t].value.openproject_version
                         = IF "coreVersion" \in DOMAIN trace[t][2].outcome.value
                           THEN trace[t][2].outcome.value.coreVersion[1]
                           ELSE "unknown"
              /\ (IsRaise(t, 2) /\ IsApiError(trace[t][2].outcome.error)) =>
                    /\ result[t].kind = "return"
                    /\ ~result[t].value.success
                    /\ result[t].value.message
                         = "Connection failed: " \o trace[t][2].outcome.error.message

\* The probe's dispatch timed out and the probe returned the failure
C18_Witness ==
    \E t \in Tasks :
        /\ Reached(t, "client.test_connection", "done")
        /\ IsRaise(t, 2)
        /\ result[t].kind = "return"
        /\ ~result[t].value.success
        /\ result[t].value.message = "Connection failed: Request failed: ReadTimeout"

-----------------------------------------------------------------------------
(* C19: the exit status of the health check script *)

\* C19: the script exits with 0 exactly when the connection test succeeded,
\* with 1 when the connection could not be established, and with 2 when an
\* unexpected error ended the check.
C19_ExitCodes ==
    \A t \in Tasks : Reached(t, "script.health_check", "done") =>
        LET tested == Len(trace[t]) = 2
        IN  /\ result[t].code = 0 <=> (tested /\ IsReturn(t, 2))
            /\ (tested /\ IsRaise(t, 2)) => result[t].code = 1
            /\ result[t].error # None => result[t].code = 2

-----------------------------------------------------------------------------
(* C21: constructing the error from any JSON body *)

\* C21: for every failure response whose body is valid JSON of any type
\* (object, array, string, number or null), constructing the
\* OpenProjectAPIError completes: the construction raises no exception of
\* its own.
C21_ConstructionCompletes ==
    \A t \in Tasks : Reached(t, "OpenProjectAPIError", "done") =>
        result[t].kind = "return"

-----------------------------------------------------------------------------
(* C22, C23, C25: the query parameters of a search *)

\* The client's search has sent its request
Searching(t) == op[t] = "client.search_work_packages" /\ pc[t] # "idle"

SentParams(t) == trace[t][1].request.params[1]

\* C22: for every integer page_size passed to the client's
\* search_work_packages the pageSize sent lies in 1..100, equal to page_size
\* when page_size is in 1..100 and to 100 when page_size is above 100; and
\* the tool rejects exactly the page sizes outside 1..100.
C22_PageSizeClamped ==
    \A t \in Tasks :
        /\ Searching(t) =>
              /\ SentParams(t)["pageSize"] \in 1..100
              /\ args[t].page_size \in 1..100 =>
                    SentParams(t)["pageSize"] = args[t].page_size
              /\ args[t].page_size > 100 => SentParams(t)["pageSize"] = 100
        /\ (op[t] = "tool.search_work_packages" /\ BadDateParam(args[t]) = "") =>
              ((pc[t] = "done" /\ trace[t] = <<>>
                  /\ result[t].value.error = "page_size must be between 1 and 100")
               <=> (args[t].page_size # None /\ args[t].page_size[1] \notin 1..100))

\* The filters sent on `field`
FiltersOn(t, field) ==
    IF "filters" \notin DOMAIN SentParams(t) THEN {}
    ELSE { i \in DOMAIN SentParams(t)["filters"] :
             field \in DOMAIN SentParams(t)["filters"][i] }

\* The filter sent on `field` is the range from..to with operator <>d
RangeSent(t, field, from, to) ==
    /\ Cardinality(FiltersOn(t, field)) = 1
    /\ \A i \in FiltersOn(t, field) :
          SentParams(t)["filters"][i][field]
              = [operator |-> "<>d", values |-> <<from, to>>]

\* A bound is given when the argument is a date string; None and the empty
\* string give no bound
DateBoundsSent(t, field, after, before) ==
    CASE TruthyDate(after) /\ TruthyDate(before) ->
             RangeSent(t, field, after[1], before[1])
      [] TruthyDate(after) /\ ~TruthyDate(before) ->
             RangeSent(t, field, after[1], Ymd(2099, 12, 31))
      [] ~TruthyDate(after) /\ TruthyDate(before) ->
             RangeSent(t, field, Ymd(1900, 1, 1), before[1])
      [] OTHER -> FiltersOn(t, field) = {}

\* C23: for createdAt and for dueDate, search_work_packages sends at most
\* one filter, with operator <>d: from..to when both bounds are given,
\* from..2099-12-31 when only the lower one is, 1900-01-01..to when only the
\* upper one is, and no filter on the field when neither is.
C23_DateFilters ==
    \A t \in Tasks : Searching(t) =>
        /\ DateBoundsSent(t, "createdAt", args[t].created_after, args[t].created_before)
        /\ DateBoundsSent(t, "dueDate", args[t].due_after, args[t].due_before)

\* A search with a lower bound only on createdAt and an upper bound only on
\* dueDate has sent both filters
C23_Witness ==
    \E t \in Tasks :
        /\ Searching(t)
        /\ TruthyDate(args[t].created_after) /\ args[t].created_before = None
        /\ args[t].due_after = None /\ TruthyDate(args[t].due_before)
        /\ FiltersOn(t, "createdAt") # {} /\ FiltersOn(t, "dueDate") # {}

\* C25: for every sort_by outside the allow-list, search_work_packages sends
\* sortBy with the field "id" and does not fail; for every sort_by of the
\* allow-list it sends that field.
C25_SortByAllowList ==
    \A t \in Tasks : Searching(t) =>
        /\ Len(SentParams(t)["sortBy"]) = 1
        /\ SentParams(t)["sortBy"][1][1]
             = IF args[t].sort_by \in {"id", "subject", "updatedAt", "createdAt",
                                        "dueDate", "startDate", "status",
                                        "priority", "type"}
               THEN args[t].sort_by
               ELSE "id"
        /\ (pc[t] = "done" /\ IsReturn(t, 2)) => result[t].kind = "return"

\* A search sorted by a field outside the allow-list has returned
C25_Witness ==
    \E t \in Tasks :
        /\ Reached(t, "client.search_work_packages", "done")
        /\ args[t].sort_by = "assignee"
        /\ result[t].kind = "return"

-----------------------------------------------------------------------------
(* C24: the optional fields of a create payload *)

\* The payload of the POST an operation has sent
Posted(t) == trace[t][1].request.json[1]

\* The operation `o` has sent its POST
HasPosted(t, o) == op[t] = o /\ trace[t] # <<>>

\* C24: the payload posted for a create request (project, work package,
\* relation) built from valid fields holds an optional field exactly when
\* the field was supplied, and omits every optional field that was absent.
C24_OptionalFields ==
    \A t \in Tasks :
        /\ HasPosted(t, "tool.create_project") =>
              /\ "description" \in DOMAIN Posted(t) <=> Strip(args[t].description) # <<>>
              /\ "status" \notin DOMAIN Posted(t)
        /\ HasPosted(t, "tool.create_work_package") =>
              /\ "description" \in DOMAIN Posted(t) <=> Strip(args[t].description) # <<>>
              /\ "startDate" \in DOMAIN Posted(t) <=> args[t].start_date # None
              /\ "dueDate" \in DOMAIN Posted(t) <=> args[t].due_date # None
              /\ "estimatedTime" \in DOMAIN Posted(t) <=> args[t].estimated_hours # None
              /\ "assignee" \in DOMAIN Posted(t)._links <=> args[t].assignee_id # None
              /\ "parent" \in DOMAIN Posted(t)._links <=> args[t].parent_id # None
        /\ HasPosted(t, "client.create_work_package_relation") =>
              /\ "description" \in DOMAIN Posted(t) <=> args[t].description # <<>>
              /\ "lag" \in DOMAIN Posted(t) <=> args[t].lag # 0

-----------------------------------------------------------------------------
(* C26: what the cache holds and what it is not consulted for *)

\* The reads of a single work item, of the projects and of a project's
\* work packages
EntityReads ==
    {"client.get_work_package_by_id", "client.get_projects",
     "client.get_work_packages"}

\* C26: the only keys present in the cache are work_package_types,
\* work_package_statuses and priorities, and every read of a single work
\* item, of the projects or of a project's work packages sends a GET
\* request, whatever the cache holds.
C26_CacheScope ==
    /\ \A k \in DOMAIN cache :
          cache[k].present =>
              k \in {"work_package_types", "work_package_statuses", "priorities"}
    /\ \A t \in Tasks : (op[t] \in EntityReads /\ pc[t] # "idle") =>
          /\ trace[t] # <<>>
          /\ IsRequest(t, 1, "GET")
          /\ trace[t][1].request.url = args[t].url

\* The projects were read, with a GET that returned, while the cache held
\* the work package types
C26_Witness ==
    \E t \in Tasks :
        /\ Reached(t, "client.get_projects", "done")
        /\ cache["work_package_types"].present
        /\ IsRequest(t, 1, "GET")
        /\ result[t].kind = "return"

-----------------------------------------------------------------------------
(* C27: two updates of one work package under optimistic locking *)

\* The update of task t has had its PATCH answered
Patched(t) ==
    /\ Reached(t, "tool.update_work_package", "done")
    /\ Len(trace[t]) = 4
    /\ IsRequest(t, 3, "PATCH")

\* Both updates read the same version: both GETs were answered before
\* either PATCH was accepted
ReadSameVersion(t, u) ==
    trace[t][3].request.json[1]["lockVersion"]
        = trace[u][3].request.json[1]["lockVersion"]

\* C27: when two updates of one work package interleave so that both GETs
\* complete before either PATCH is sent, and the remote service accepts a
\* PATCH only if its lockVersion is the version held and then increments
\* it, at most one of the two PATCHes is accepted and the other update
\* reports a failure.
C27_NoLostUpdate ==
    \A t, u \in Tasks :
        (t # u /\ Patched(t) /\ Patched(u) /\ ReadSameVersion(t, u)) =>
            /\ ~(IsReturn(t, 4) /\ IsReturn(u, 4))
            /\ IsRaise(t, 4) => ~result[t].value.success
            /\ IsReturn(t, 4) => result[t].value.success

\* Two updates read version 0; one was accepted and reports success, the
\* other was rejected and reports the failure
C27_Witness ==
    \E t, u \in Tasks :
        /\ t # u /\ Patched(t) /\ Patched(u) /\ ReadSameVersion(t, u)
        /\ IsReturn(t, 4) /\ result[t].value.success
        /\ IsRaise(u, 4) /\ ~result[u].value.success
        /\ remote_version = 1

-----------------------------------------------------------------------------
(* C28, C29: the cache under concurrent and under failing lookups *)

\* C28: under concurrent get_cached_or_fetch calls for one key the timestamp
\* stored under the key never decreases: a lookup that started earlier never
\* overwrites the entry written by a lookup that started later.
C28_TimestampMonotone ==
    [][\A k \in CacheKeys :
          (cache[k].present /\ cache'[k].present) =>
              cache'[k].timestamp >= cache[k].timestamp]_vars

\* The fetch of task t's cached lookup ends in this step by raising
FetchRaises(t) ==
    /\ Reached(t, "client.get_reference", "fetch")
    /\ args[t].use_cache
    /\ pc'[t] = "done"
    /\ IsRaise(t, 2)'

\* C29: if the fetch raises during get_cached_or_fetch(k), the error
\* propagates to the caller and the cache is left as it was before the call:
\* no entry is written, a stale entry for k stays in place, and the entries
\* of other keys are unchanged.
C29_FailedFetchFrame ==
    [][\A t \in Tasks : FetchRaises(t) =>
          /\ result'[t] = [kind |-> "raise", error |-> trace'[t][2].outcome.error]
          /\ cache' = cache]_vars

\* A lookup found a stale entry, its fetch raised, and the stale entry is
\* still in place
C29_Witness ==
    \E t \in Tasks :
        /\ Reached(t, "client.get_reference", "done")
        /\ args[t].use_cache
        /\ Len(trace[t]) = 2
        /\ IsRaise(t, 2)
        /\ result[t].kind = "raise"
        /\ cache[args[t].cache_key].present
        /\ local[t].now - cache[args[t].cache_key].timestamp >= 5

-----------------------------------------------------------------------------
(* C30: the walk ends *)

\* The most requests a walk sends when total never exceeds n
MostRequests(n) == IF n = 0 THEN 1 ELSE (n + 99) \div 100

\* The total the remote service of task t's walk reports, 0 when it
\* reports none
ReportedTotal(t) ==
    IF args[t].remote.total = None THEN 0 ELSE args[t].remote.total[1]

\* C30: the walk ends for every remote service whose responses all arrive
\* and whose reported total never exceeds N: it sends at most
\* max(1, ceil(N / 100)) requests and has returned once the last of them is
\* answered, even if every page comes back non-empty.
C30_WalkEnds ==
    \A t \in Tasks : Walking(t) =>
        /\ Cardinality(Requests(t)) <= MostRequests(ReportedTotal(t))
        /\ Len(trace[t]) = 2 * MostRequests(ReportedTotal(t)) => pc[t] = "done"

\* Every request was answered with the first hundred elements, and the walk
\* returned after the four requests a total of 387 allows
C30_Witness ==
    \E t \in Tasks :
        /\ Walking(t) /\ pc[t] = "done"
        /\ args[t].params = Some("offset" :> 0)
        /\ ReportedTotal(t) = 387
        /\ Cardinality(Requests(t)) = 4
        /\ result[t].kind = "return"
        /\ Len(result[t].value) = 400

=============================================================================
